---------------------------- MODULE Spec2Model ----------------------------
(***************************************************************************)
(* Model of the payroll tax arithmetic of                                  *)
(* src/src/modules/erpnext/api/integration.py (class ERPNextIntegration),  *)
(* of process_payroll and the other public methods of that class, and of   *)
(* the public methods of FinRobotIntegration and FinGPTIntegration.        *)
(*                                                                         *)
(* Number representation.  The code computes on Python floats; the model   *)
(* computes on exact decimals held as integers:                            *)
(*   - a money amount is a whole number of cents (8000.00 is 800000);      *)
(*   - a bracket's marginal rate is a whole number of percent (0.12 is     *)
(*     12), so a value returned by _calculate_progressive_tax is held in   *)
(*     units of 1/100 cent (cents * percent);                              *)
(*   - any other rate, and any unrounded deduction, is an exact fraction   *)
(*     [num, den].                                                         *)
(* Binary floating-point representation error is not modelled.             *)
(***************************************************************************)
EXTENDS Integers, Sequences, FiniteSets, TLC

VARIABLES
    tax_configurations,  \* self.tax_configurations of the instance
    tax_brackets,        \* the bracket table a direct caller of _calculate_progressive_tax holds
    prog_call,           \* the most recent invocation of _calculate_progressive_tax
    ded_call,            \* the most recent invocation of _calculate_deductions
    service,             \* which integration object the behaviour exercises
    modules,             \* the module attributes present on the ERPNext instance
    agents,              \* the keys of self.agents of the FinRobot instance
    lifecycle,           \* which of initialize and shutdown have been called so far
    result,              \* the most recent call of a public method and its outcome
    payroll_calls,       \* the activation of process_payroll of each caller
    prog_log,            \* the invocations of _calculate_progressive_tax a caller has kept
    instances,           \* the integration objects of each tenant
    invoked,             \* the tenant and the method of the most recent call on instances
    batch                \* the activation of analyze_batch

vars == <<tax_configurations, tax_brackets, prog_call, ded_call,
          service, modules, agents, lifecycle, result, payroll_calls, prog_log,
          instances, invoked, batch>>

\* the variables of the service objects
service_vars == <<service, modules, agents, lifecycle, result, payroll_calls, prog_log>>

\* the variables of the tenants' objects and of analyze_batch
tenant_vars == <<instances, invoked, batch>>

-----------------------------------------------------------------------------
(* Bounds of the model *)

\* longest bracket table a direct caller passes
MaxBrackets == 3

\* gross pays tried go up to MaxGrossSteps * 2500.00
MaxGrossSteps == 12

\* longest employee list of a payroll request
MaxEmployees == 2

\* longest log of progressive-tax invocations a caller keeps
MaxLog == 3

\* longest text built from every combination of the tokens tried
MaxTokens == 1

\* longest list of texts passed to analyze_batch
MaxBatch == 3

-----------------------------------------------------------------------------
(* Program constants *)

\* "* 12" and "/ 12": periods per year
PeriodsPerYear == 12

\* ss_wage_base = 160200, in cents
ss_wage_base == 16020000

\* the provident-fund cap 1800, in cents
pf_cap == 180000

\* bracket rates are held in percent
PercentDen == 100

-----------------------------------------------------------------------------
(* Exact arithmetic helpers *)

Min(a, b) == IF a <= b THEN a ELSE b

\* Python's min(a, b) on two exact fractions with positive denominators
\* (returns the first argument when they are equal, as min does)
RMin(a, b) == IF b.num * a.den < a.num * b.den THEN b ELSE a

Frac(n, d) == [num |-> n, den |-> d]

\* quantize(Decimal('0.01'), rounding=ROUND_HALF_UP) of the fraction num/den
\* of a cent count: nearest cent, ties away from zero
RoundHalfUpNat(num, den) ==
    LET q == num \div den
        r == num % den
    IN  IF 2 * r >= den THEN q + 1 ELSE q

\* slip: rounding=ROUND_HALF_EVEN (banker's rounding) for ROUND_HALF_UP
round_decimal_half_even(value) ==
    LET n == IF value.num >= 0 THEN value.num ELSE -value.num
        q == n \div value.den
        r == n % value.den
        m == IF 2 * r > value.den \/ (2 * r = value.den /\ q % 2 = 1)
             THEN q + 1 ELSE q
    IN  IF value.num >= 0 THEN m ELSE -m

_round_decimal(value) ==
    IF value.num >= 0
    THEN RoundHalfUpNat(value.num, value.den)
    ELSE -RoundHalfUpNat(-value.num, value.den)

-----------------------------------------------------------------------------
(* _calculate_progressive_tax *)

\* The body of the for loop, from bracket index i (1-based) on, with the
\* loop's two accumulators.
RECURSIVE BracketLoop(_, _, _, _, _)
BracketLoop(annual_income, brackets, i, total_tax, remaining_income) ==
    IF i > Len(brackets) THEN total_tax
    ELSE IF remaining_income <= 0 THEN total_tax
    ELSE
        LET threshold == brackets[i][1]
            rate == brackets[i][2]
            taxable_in_bracket ==
                IF i < Len(brackets)
                THEN Min(remaining_income, brackets[i + 1][1] - threshold)
                ELSE remaining_income
        IN  IF annual_income > threshold
            THEN BracketLoop(annual_income, brackets, i + 1,
                     total_tax + Min(taxable_in_bracket, annual_income - threshold) * rate,
                     remaining_income - taxable_in_bracket)
            ELSE BracketLoop(annual_income, brackets, i + 1,
                     total_tax, remaining_income)

\* Variants of _calculate_progressive_tax with one plausible slip each, used
\* to show that the properties below depend on the bracket walk.

\* slip: each bracket taxes everything above its threshold (the slice is not
\* cut at the next threshold)
RECURSIVE UncutLoop(_, _, _)
UncutLoop(annual_income, brackets, i) ==
    IF i > Len(brackets) THEN 0
    ELSE (IF annual_income > brackets[i][1]
          THEN (annual_income - brackets[i][1]) * brackets[i][2]
          ELSE 0) + UncutLoop(annual_income, brackets, i + 1)

progressive_tax_uncut_slices(annual_income, brackets) ==
    UncutLoop(annual_income, brackets, 1)

\* slip: the rate of the highest bracket reached is applied to the whole
\* amount (a step function instead of marginal rates)
RECURSIVE TopRateLoop(_, _, _, _)
TopRateLoop(annual_income, brackets, i, rate) ==
    IF i > Len(brackets) THEN rate
    ELSE TopRateLoop(annual_income, brackets, i + 1,
             IF annual_income > brackets[i][1] THEN brackets[i][2] ELSE rate)

progressive_tax_whole_amount_rate(annual_income, brackets) ==
    IF annual_income <= 0 THEN 0
    ELSE annual_income * TopRateLoop(annual_income, brackets, 1, 0)

\* slip: ">=" for ">" and the bracket's full width charged (min with the
\* remaining income forgotten)
RECURSIVE FullWidthLoop(_, _, _)
FullWidthLoop(annual_income, brackets, i) ==
    IF i > Len(brackets) THEN 0
    ELSE (IF annual_income >= brackets[i][1]
          THEN (IF i < Len(brackets)
                THEN brackets[i + 1][1] - brackets[i][1]
                ELSE annual_income - brackets[i][1]) * brackets[i][2]
          ELSE 0) + FullWidthLoop(annual_income, brackets, i + 1)

progressive_tax_full_width(annual_income, brackets) ==
    FullWidthLoop(annual_income, brackets, 1)

\* slip: the total is rounded to whole cents before it is returned
progressive_tax_rounded(annual_income, brackets) ==
    _round_decimal(Frac(BracketLoop(annual_income, brackets, 1, 0, annual_income),
                        PercentDen)) * PercentDen

_calculate_progressive_tax(annual_income, brackets) ==
    BracketLoop(annual_income, brackets, 1, 0, annual_income)

\* slip: total_tax is kept on the instance and not reset at entry, so a call
\* starts from the total of the call before it
ProgInvocation_running_total(annual_income, brackets) ==
    [called |-> TRUE,
     annual_income |-> annual_income,
     tax_brackets |-> brackets,
     outcome |-> "returned",
     total_tax |-> prog_call.total_tax
                   + BracketLoop(annual_income, brackets, 1, 0, annual_income)]

\* The record of one invocation.  The function has no raise statement and
\* no operation that can fail on a list of (number, number) pairs, so every
\* invocation returns.
ProgInvocation(annual_income, brackets) ==
    [called |-> TRUE,
     annual_income |-> annual_income,
     tax_brackets |-> brackets,
     outcome |-> "returned",
     total_tax |-> _calculate_progressive_tax(annual_income, brackets)]

NoProgCall ==
    [called |-> FALSE, annual_income |-> 0, tax_brackets |-> <<>>,
     outcome |-> "none", total_tax |-> 0]

-----------------------------------------------------------------------------
(* __init__ : the built-in tax configuration (amounts in cents, bracket     *)
(* rates in percent, other rates as exact fractions)                        *)

\* slip: the second and third US brackets are entered in the wrong order
tax_configurations_unordered ==
    "US" :> [federal_income_tax |-> [brackets |->
                 <<<<0, 10>>, <<4052500, 22>>, <<995000, 12>>, <<8637500, 24>>>>],
             social_security |-> Frac(62, 1000),
             medicare |-> Frac(145, 10000),
             unemployment |-> Frac(6, 1000),
             state_variations |-> TRUE]
    @@
    "IN" :> [income_tax |-> [brackets |->
                 <<<<0, 0>>, <<25000000, 5>>, <<50000000, 20>>, <<100000000, 30>>>>],
             pf |-> Frac(12, 100),
             esi |-> Frac(75, 10000),
             professional_tax |-> 20000]
    @@
    "UK" :> [income_tax |-> [brackets |->
                 <<<<0, 0>>, <<1257000, 20>>, <<5027000, 40>>, <<15000000, 45>>>>],
             ni_employee |-> Frac(12, 100),
             ni_employer |-> Frac(138, 1000),
             pension_auto_enrollment |-> Frac(5, 100)]

InitialTaxConfigurations ==
    "US" :> [federal_income_tax |-> [brackets |->
                 <<<<0, 10>>, <<995000, 12>>, <<4052500, 22>>, <<8637500, 24>>>>],
             social_security |-> Frac(62, 1000),
             medicare |-> Frac(145, 10000),
             unemployment |-> Frac(6, 1000),
             state_variations |-> TRUE]
    @@
    "IN" :> [income_tax |-> [brackets |->
                 <<<<0, 0>>, <<25000000, 5>>, <<50000000, 20>>, <<100000000, 30>>>>],
             pf |-> Frac(12, 100),
             esi |-> Frac(75, 10000),
             professional_tax |-> 20000]
    @@
    "UK" :> [income_tax |-> [brackets |->
                 <<<<0, 0>>, <<1257000, 20>>, <<5027000, 40>>, <<15000000, 45>>>>],
             ni_employee |-> Frac(12, 100),
             ni_employer |-> Frac(138, 1000),
             pension_auto_enrollment |-> Frac(5, 100)]


-----------------------------------------------------------------------------
(* _calculate_deductions(employee, earnings, region)                        *)
(* earnings enters only through gross_pay = sum(earnings.values()); the     *)
(* employee enters through health_insurance_deduction, loan_emi and         *)
(* voluntary_deductions (0 stands for a missing or falsy field, the empty   *)
(* function for a missing or empty voluntary_deductions dict).              *)

Regions == {"US", "IN", "UK"}

\* self.tax_configurations.get(region, self.tax_configurations['US'])
TaxConfigFor(config, region) ==
    IF region \in DOMAIN config THEN config[region] ELSE config["US"]

\* slip: the period amount is handed over as it is
AnnualIncome_not_annualized(gross_pay) == gross_pay

\* gross_pay * 12 : the annualized amount handed to the progressive calculation
AnnualIncome(gross_pay) == gross_pay * PeriodsPerYear

\* the bracket table the region's branch reads
RegionBrackets(tax_config, region) ==
    IF region = "US" THEN tax_config.federal_income_tax.brackets
    ELSE tax_config.income_tax.brackets

\* the invocation of _calculate_progressive_tax the region's branch makes
IncomeTaxInvocation(config, gross_pay, region) ==
    IF region \in Regions
    THEN ProgInvocation(AnnualIncome(gross_pay),
                        RegionBrackets(TaxConfigFor(config, region), region))
    ELSE NoProgCall

\* "... / 12" of a progressive result held in cents * percent, as a
\* fraction of cents
PerPeriod(total_tax) == Frac(total_tax, PercentDen * PeriodsPerYear)

\* (min(gross_pay * 12, ss_wage_base) * rate) / 12
SocialSecurity(gross_pay, rate) ==
    Frac(Min(gross_pay * PeriodsPerYear, ss_wage_base) * rate.num,
         rate.den * PeriodsPerYear)

\* slip: the cap is left out
ProvidentFund_uncapped(gross_pay, rate) == Frac(gross_pay * rate.num, rate.den)

\* min(gross_pay * tax_config['pf'], 1800)
ProvidentFund(gross_pay, rate) ==
    RMin(Frac(gross_pay * rate.num, rate.den), Frac(pf_cap, 1))

\* gross_pay * rate
Times(gross_pay, rate) == Frac(gross_pay * rate.num, rate.den)

VoluntaryKey(name) == CASE name = "charity" -> "voluntary_charity"
                        [] name = "union" -> "voluntary_union"

\* the keys assigned in the deductions dict before the final comprehension
DeductionKeys(employee, gross_pay, region) ==
    (CASE region = "US" ->
              {"federal_income_tax", "social_security", "medicare", "state_income_tax"}
       [] region = "IN" ->
              {"income_tax", "provident_fund", "professional_tax"}
              \cup (IF gross_pay * 12 <= 25000000 THEN {"esi"} ELSE {})
       [] region = "UK" ->
              {"income_tax", "national_insurance"}
              \cup (IF gross_pay * 12 > 1000000 THEN {"pension_contribution"} ELSE {})
       [] OTHER -> {})
    \cup (IF employee.health_insurance_deduction # 0 THEN {"health_insurance"} ELSE {})
    \cup (IF employee.loan_emi # 0 THEN {"loan_emi"} ELSE {})
    \cup {VoluntaryKey(n) : n \in DOMAIN employee.voluntary_deductions}

\* the unrounded value assigned under each key
DeductionValue(key, config, employee, gross_pay, region) ==
    LET tax_config == TaxConfigFor(config, region)
        tax == IncomeTaxInvocation(config, gross_pay, region).total_tax
    IN  CASE key = "federal_income_tax" -> PerPeriod(tax)
          [] key = "social_security" -> SocialSecurity(gross_pay, tax_config.social_security)
          [] key = "medicare" -> Times(gross_pay, tax_config.medicare)
          [] key = "state_income_tax" -> Times(gross_pay, Frac(5, 100))
          [] key = "income_tax" -> PerPeriod(tax)
          [] key = "provident_fund" -> ProvidentFund(gross_pay, tax_config.pf)
          [] key = "esi" -> Times(gross_pay, tax_config.esi)
          [] key = "professional_tax" -> Frac(tax_config.professional_tax, 1)
          [] key = "national_insurance" -> Times(gross_pay, tax_config.ni_employee)
          [] key = "pension_contribution" ->
                 Times(gross_pay, tax_config.pension_auto_enrollment)
          [] key = "health_insurance" -> Frac(employee.health_insurance_deduction, 1)
          [] key = "loan_emi" -> Frac(employee.loan_emi, 1)
          [] key = "voluntary_charity" -> Frac(employee.voluntary_deductions["charity"], 1)
          [] key = "voluntary_union" -> Frac(employee.voluntary_deductions["union"], 1)

\* return {k: self._round_decimal(v) for k, v in deductions.items() if v > 0}
_calculate_deductions(config, employee, gross_pay, region) ==
    LET kept == {k \in DeductionKeys(employee, gross_pay, region) :
                    DeductionValue(k, config, employee, gross_pay, region).num > 0}
    IN  [k \in kept |->
            _round_decimal(DeductionValue(k, config, employee, gross_pay, region))]

NoDedCall ==
    [called |-> FALSE, employee |-> <<>>, gross_pay |-> 0, region |-> "",
     tax_call |-> NoProgCall, deductions |-> <<>>]

-----------------------------------------------------------------------------
(* process_payroll and the methods it calls.                                *)
(* A request (payroll_data) is a record: is_dict (FALSE stands for an       *)
(* argument that is not a dict, e.g. None), employees (a sequence, empty    *)
(* for a missing or empty list), period_start and period_end (TRUE when     *)
(* present and truthy) and region (NoRegion when the key is missing).  An   *)
(* employee is a record with one field per key the code reads: 0, "" and    *)
(* FALSE stand for a missing or falsy value.                                *)

NoRegion == "(none)"

\* payroll_data.get('region', 'US')
RegionOf(payroll_data) ==
    IF payroll_data.region = NoRegion THEN "US" ELSE payroll_data.region

\* sum(d.values()) of a dict of cent amounts
RECURSIVE SumValues(_)
SumValues(d) ==
    IF DOMAIN d = {} THEN 0
    ELSE LET k == CHOOSE x \in DOMAIN d : TRUE
         IN  d[k] + SumValues([j \in (DOMAIN d) \ {k} |-> d[j]])

\* one entry of the errors list: the employee's position (0 for an error of
\* the request itself) and the message
ValidationError(idx, message) == [employee |-> idx, message |-> message]

RECURSIVE EmployeeErrors(_, _)
EmployeeErrors(employees, idx) ==
    IF idx > Len(employees) THEN <<>>
    ELSE (IF employees[idx].employee_id = ""
          THEN <<ValidationError(idx, "Employee ID is required")>> ELSE <<>>)
         \o (IF employees[idx].base_salary <= 0
             THEN <<ValidationError(idx, "Valid base salary is required")>> ELSE <<>>)
         \o EmployeeErrors(employees, idx + 1)

\* slip: only the first employee is validated
validate_first_employee_only(payroll_data) ==
    LET errors ==
            (IF payroll_data.employees = <<>>
             THEN <<ValidationError(0, "No employees provided for payroll processing")>>
             ELSE <<>>)
            \o (IF ~payroll_data.period_start \/ ~payroll_data.period_end
                THEN <<ValidationError(0, "Payroll period dates are required")>>
                ELSE <<>>)
            \o (IF payroll_data.employees = <<>> THEN <<>>
                ELSE EmployeeErrors(<<Head(payroll_data.employees)>>, 1))
    IN  [valid |-> errors = <<>>, errors |-> errors]

_validate_payroll_data(payroll_data) ==
    LET errors ==
            (IF payroll_data.employees = <<>>
             THEN <<ValidationError(0, "No employees provided for payroll processing")>>
             ELSE <<>>)
            \o (IF ~payroll_data.period_start \/ ~payroll_data.period_end
                THEN <<ValidationError(0, "Payroll period dates are required")>>
                ELSE <<>>)
            \o EmployeeErrors(payroll_data.employees, 1)
    IN  [valid |-> errors = <<>>, errors |-> errors]

\* the keys assigned in the earnings dict before the final comprehension
EarningsKeys(employee) ==
    {"basic_salary", "overtime_pay", "commission", "bonus"}
    \cup (IF employee.level \in {"manager", "senior"} THEN {"management_allowance"} ELSE {})
    \cup (IF employee.has_transport_allowance THEN {"transport_allowance"} ELSE {})
    \cup (IF employee.has_meal_allowance THEN {"meal_allowance"} ELSE {})

\* the unrounded value under each key; overtime_hours * (base_salary / 160) * 1.5
\* is base_salary * overtime_hours * 3 / 320
EarningsValue(key, employee) ==
    CASE key = "basic_salary" -> Frac(employee.base_salary, 1)
      [] key = "overtime_pay" ->
             Frac(employee.base_salary * employee.overtime_hours * 3, 320)
      [] key = "commission" -> Frac(employee.commission, 1)
      [] key = "bonus" -> Frac(employee.bonus, 1)
      [] key = "management_allowance" -> Frac(employee.base_salary, 10)
      [] key = "transport_allowance" -> Frac(50000, 1)
      [] key = "meal_allowance" -> Frac(30000, 1)

\* return {k: self._round_decimal(v) for k, v in earnings.items() if v > 0}
_calculate_earnings(employee) ==
    LET kept == {k \in EarningsKeys(employee) : EarningsValue(k, employee).num > 0}
    IN  [k \in kept |-> _round_decimal(EarningsValue(k, employee))]

BenefitKeys(employee) ==
    (IF employee.health_insurance_plan THEN {"health_insurance_employer"} ELSE {})
    \cup (IF employee.retirement_contribution # 0 THEN {"retirement_matching"} ELSE {})
    \cup (IF employee.life_insurance_coverage THEN {"life_insurance_premium"} ELSE {})

\* retirement matching: min(contribution * match_rate, gross_pay * 0.06)
BenefitValue(key, employee, gross_pay) ==
    CASE key = "health_insurance_employer" -> Frac(40000, 1)
      [] key = "retirement_matching" ->
             RMin(Frac(employee.retirement_contribution * employee.retirement_match_rate.num,
                       employee.retirement_match_rate.den),
                  Frac(gross_pay * 6, 100))
      [] key = "life_insurance_premium" -> Frac(5000, 1)

_calculate_benefits(employee, gross_pay) ==
    LET kept == {k \in BenefitKeys(employee) : BenefitValue(k, employee, gross_pay).num > 0}
    IN  [k \in kept |-> _round_decimal(BenefitValue(k, employee, gross_pay))]

\* slip: net pay is taken from the basic salary, not from the gross pay
process_employee_payroll_net_of_basic(config, employee, payroll_data) ==
    LET region == RegionOf(payroll_data)
        earnings == _calculate_earnings(employee)
        gross_pay == SumValues(earnings)
        deductions == _calculate_deductions(config, employee, gross_pay, region)
        total_deductions == SumValues(deductions)
    IN  [employee_id |-> employee.employee_id,
         earnings |-> earnings,
         deductions |-> deductions,
         benefits |-> _calculate_benefits(employee, gross_pay),
         gross_pay |-> _round_decimal(Frac(gross_pay, 1)),
         total_deductions |-> _round_decimal(Frac(total_deductions, 1)),
         net_pay |-> _round_decimal(Frac(earnings.basic_salary - total_deductions, 1))]

\* the 'calculations' of one employee's result (with the employee_id)
_process_employee_payroll(config, employee, payroll_data) ==
    LET region == RegionOf(payroll_data)
        earnings == _calculate_earnings(employee)
        gross_pay == SumValues(earnings)
        deductions == _calculate_deductions(config, employee, gross_pay, region)
        total_deductions == SumValues(deductions)
    IN  [employee_id |-> employee.employee_id,
         earnings |-> earnings,
         deductions |-> deductions,
         benefits |-> _calculate_benefits(employee, gross_pay),
         gross_pay |-> _round_decimal(Frac(gross_pay, 1)),
         total_deductions |-> _round_decimal(Frac(total_deductions, 1)),
         net_pay |-> _round_decimal(Frac(gross_pay - total_deductions, 1))]

\* _generate_payroll_compliance_reports: the two sums of the tax summary
RECURSIVE ComplianceSum(_, _, _)
ComplianceSum(payroll_results, keys, i) ==
    IF i > Len(payroll_results) THEN 0
    ELSE SumValues([k \in keys \cap DOMAIN payroll_results[i].deductions |->
                        payroll_results[i].deductions[k]])
         + ComplianceSum(payroll_results, keys, i + 1)

_generate_payroll_compliance_reports(payroll_results) ==
    [total_income_tax_withheld |->
         ComplianceSum(payroll_results,
                       {"federal_income_tax", "state_income_tax", "income_tax"}, 1),
     total_social_security |->
         ComplianceSum(payroll_results, {"social_security", "provident_fund"}, 1),
     compliance_status |-> "compliant"]

\* The employer taxes are summed unrounded.  Every employer rate is a
\* multiple of 1/2000, so the running sum is held exactly as whole cents
\* plus a number of 1/2000 cent.
EmployerTaxDen == 2000

\* gross_pay * n / 2000
RateShare(gross_pay, n) ==
    LET r == (gross_pay % EmployerTaxDen) * n
    IN  [cents |-> (gross_pay \div EmployerTaxDen) * n + r \div EmployerTaxDen,
         part |-> r % EmployerTaxDen]

Plus(a, b) ==
    [cents |-> a.cents + b.cents + (a.part + b.part) \div EmployerTaxDen,
     part |-> (a.part + b.part) % EmployerTaxDen]

Zero == [cents |-> 0, part |-> 0]

\* what one employee adds to total_employer_taxes; total_gross_payroll is
\* the running total with this employee's gross pay already added
EmployerTaxOf(region, gross_pay, total_gross_payroll) ==
    CASE region = "US" ->
             \* 0.062 + 0.0145 + 0.006
             Plus(RateShare(gross_pay, 124),
                  Plus(RateShare(gross_pay, 29), RateShare(gross_pay, 12)))
      [] region = "IN" ->
             \* min(gross_pay * 0.12, 1800), and 0.0325 up to 250000 a year
             Plus(IF gross_pay * 12 < 180000 * 100
                  THEN RateShare(gross_pay, 240) ELSE [cents |-> 180000, part |-> 0],
                  IF gross_pay * 12 <= 25000000
                  THEN RateShare(gross_pay, 65) ELSE Zero)
      [] region = "UK" ->
             \* 0.138, and the levy 0.005 once the running payroll passes 3M a year
             Plus(RateShare(gross_pay, 276),
                  IF total_gross_payroll * 12 > 300000000
                  THEN RateShare(gross_pay, 10) ELSE Zero)
      [] OTHER -> Zero

RECURSIVE EmployerLoop(_, _, _, _, _, _)
EmployerLoop(payroll_results, region, i, total_employer_taxes, total_benefits_cost, total_gross_payroll) ==
    IF i > Len(payroll_results)
    THEN [total_employer_taxes |-> total_employer_taxes,
          total_benefits_cost |-> total_benefits_cost,
          total_gross_payroll |-> total_gross_payroll]
    ELSE LET gross_pay == payroll_results[i].gross_pay
             running == total_gross_payroll + gross_pay
         IN  EmployerLoop(payroll_results, region, i + 1,
                 Plus(total_employer_taxes, EmployerTaxOf(region, gross_pay, running)),
                 total_benefits_cost + SumValues(payroll_results[i].benefits),
                 running)

\* _round_decimal of whole cents plus a number of 1/2000 cent
RoundCentsAndPart(m) == m.cents + _round_decimal(Frac(m.part, EmployerTaxDen))

_calculate_employer_liabilities(payroll_results, payroll_data) ==
    LET region == RegionOf(payroll_data)
        t == EmployerLoop(payroll_results, region, 1, Zero, 0, 0)
    IN  [total_gross_payroll |-> _round_decimal(Frac(t.total_gross_payroll, 1)),
         employer_taxes |-> RoundCentsAndPart(t.total_employer_taxes),
         benefits_cost |-> _round_decimal(Frac(t.total_benefits_cost, 1)),
         total_employer_cost |->
             RoundCentsAndPart(
                 Plus(t.total_employer_taxes,
                      [cents |-> t.total_gross_payroll + t.total_benefits_cost,
                       part |-> 0])),
         region |-> region]

\* The activation of one process_payroll call: its argument, its position
\* (pc) and its local variables.  pc is "validate" (lines 143-148),
\* "employees" (one iteration of the loop, lines 156-162, per step),
\* "finish" (lines 165-207) or "returned".
\* The outcome of a call is a record: raised is TRUE when the call ends with
\* an exception that reaches the caller; otherwise the other fields are those
\* of the dict returned.
NoResult ==
    [raised |-> FALSE, success |-> FALSE, error |-> [kind |-> "", errors |-> <<>>]]

NewCall(payroll_data) ==
    [payroll_data |-> payroll_data,
     pc |-> "validate",
     payroll_results |-> <<>>,
     total_gross_pay |-> 0,
     total_deductions |-> 0,
     total_net_pay |-> 0,
     interleaved |-> FALSE,
     result |-> NoResult]

\* slip: the except branch logs the exception and raises it again (as
\* initialize does)
Failure_reraised(kind, errors) ==
    [raised |-> TRUE, success |-> FALSE, error |-> [kind |-> kind, errors |-> errors]]

\* except Exception as e: the dict returned for an exception of the given
\* kind (for a validation failure, with the list of errors in the message)
Failure(kind, errors) ==
    [raised |-> FALSE, success |-> FALSE, error |-> [kind |-> kind, errors |-> errors]]

\* lines 143-148: a non-dict argument fails at payroll_data.get, an invalid
\* request raises ValueError; both end in the except branch
ValidateStep(call) ==
    IF ~call.payroll_data.is_dict
    THEN [call EXCEPT !.pc = "returned", !.result = Failure("AttributeError", <<>>)]
    ELSE LET validation == _validate_payroll_data(call.payroll_data)
         IN  IF ~validation.valid
             THEN [call EXCEPT !.pc = "returned",
                               !.result = Failure("ValueError", validation.errors)]
             ELSE \* a valid request has at least one employee
                  [call EXCEPT !.pc = "employees"]

\* lines 156-162: one iteration
EmployeeStep(config, call) ==
    LET i == Len(call.payroll_results) + 1
        employee_result ==
            _process_employee_payroll(config, call.payroll_data.employees[i],
                                      call.payroll_data)
    IN  [call EXCEPT
            !.payroll_results = Append(@, employee_result),
            !.total_gross_pay = @ + employee_result.gross_pay,
            !.total_deductions = @ + employee_result.total_deductions,
            !.total_net_pay = @ + employee_result.net_pay,
            !.pc = IF i = Len(call.payroll_data.employees) THEN "finish" ELSE "employees"]

\* lines 165-207
FinishStep(call) ==
    [call EXCEPT
        !.pc = "returned",
        !.result =
            [raised |-> FALSE,
             success |-> TRUE,
             summary |->
                 [total_employees |-> Len(call.payroll_results),
                  total_gross_pay |-> _round_decimal(Frac(call.total_gross_pay, 1)),
                  total_deductions |-> _round_decimal(Frac(call.total_deductions, 1)),
                  total_net_pay |-> _round_decimal(Frac(call.total_net_pay, 1))],
             employee_results |-> call.payroll_results,
             compliance |-> _generate_payroll_compliance_reports(call.payroll_results),
             employer_liabilities |->
                 _calculate_employer_liabilities(call.payroll_results,
                                                 call.payroll_data)]]

\* slip: the three running totals are kept on the instance, so an iteration
\* of one activation also moves the totals of the other activations that
\* are inside their loop
payroll_step_shared_totals(config, activations, c) ==
    LET call == activations[c]
        next == CASE call.pc = "validate" -> ValidateStep(call)
                  [] call.pc = "employees" -> EmployeeStep(config, call)
                  [] call.pc = "finish" -> FinishStep(call)
                  [] OTHER -> call
        added == next.total_gross_pay - call.total_gross_pay
    IN  [d \in DOMAIN activations |->
            IF d = c THEN next
            ELSE IF activations[d].pc \in {"employees", "finish"}
                 THEN [activations[d] EXCEPT !.total_gross_pay = @ + added]
                 ELSE activations[d]]

\* one step of activation c; the other activations are not touched (every
\* variable of process_payroll is local)
PayrollStep(config, activations, c) ==
    LET call == activations[c]
    IN  [activations EXCEPT ![c] =
            CASE call.pc = "validate" -> ValidateStep(call)
              [] call.pc = "employees" -> EmployeeStep(config, call)
              [] call.pc = "finish" -> FinishStep(call)
              [] OTHER -> call]

\* an activation run from its current position to its return, alone
RECURSIVE RunAlone(_, _)
RunAlone(config, call) ==
    IF call.pc = "returned" THEN call
    ELSE RunAlone(config, PayrollStep(config, <<call>>, 1)[1])

\* the dict process_payroll returns
process_payroll(config, payroll_data) ==
    RunAlone(config, NewCall(payroll_data)).result

-----------------------------------------------------------------------------
(* ERPNextIntegration: initialize, optimize_bom, health_check               *)

\* the attributes initialize sets (absent after __init__)
ModuleNames ==
    {"hr_module", "payroll_engine", "manufacturing_module",
     "compliance_engine", "reporting_system"}

\* A BOM request: is_dict, product_name (TRUE when present and truthy),
\* components_is_list, and the components, each with part_number (TRUE when
\* present and truthy), quantity (0 when missing) and unit_cost_is_number.
RECURSIVE ComponentErrors(_, _)
ComponentErrors(components, idx) ==
    IF idx > Len(components) THEN <<>>
    ELSE (IF ~components[idx].part_number
          THEN <<ValidationError(idx, "Part number is required")>> ELSE <<>>)
         \o (IF components[idx].quantity <= 0
             THEN <<ValidationError(idx, "Valid quantity is required")>> ELSE <<>>)
         \o ComponentErrors(components, idx + 1)

_validate_bom_data(bom_data) ==
    LET errors ==
            (IF ~bom_data.product_name
             THEN <<ValidationError(0, "Product name is required")>> ELSE <<>>)
            \o (IF bom_data.components = <<>> \/ ~bom_data.components_is_list
                THEN <<ValidationError(0, "Components list is required")>> ELSE <<>>)
            \o ComponentErrors(bom_data.components, 1)
    IN  [valid |-> errors = <<>>, errors |-> errors]

\* The dict optimize_bom returns (of the analysis only the component count
\* is kept).  float(component.get('unit_cost', 0)) raises ValueError on a
\* value that is not a number; every exception ends in the except branch.
optimize_bom(bom_data) ==
    IF ~bom_data.is_dict
    THEN Failure("AttributeError", <<>>)
    ELSE LET validation == _validate_bom_data(bom_data)
         IN  IF ~validation.valid
             THEN Failure("ValueError", validation.errors)
             ELSE IF \E i \in 1..Len(bom_data.components) :
                         ~bom_data.components[i].unit_cost_is_number
                  THEN Failure("ValueError", <<>>)
                  ELSE [raised |-> FALSE, success |-> TRUE,
                        total_components |-> Len(bom_data.components)]

\* the dict health_check returns, from the set of module attributes present
health_check(module_set) ==
    [status |-> IF ModuleNames \subseteq module_set THEN "healthy" ELSE "partial",
     modules |-> [m \in ModuleNames |->
                      IF m \in module_set THEN "healthy" ELSE "not_initialized"],
     supported_regions |-> Regions]

\* get_capabilities (the constant lists are left out)
get_capabilities(config) ==
    [service |-> "erpnext", payroll_regions |-> DOMAIN config]

-----------------------------------------------------------------------------
(* FinRobotIntegration                                                      *)
(* The data argument is a record: is_dict, current_revenue (cents; the      *)
(* default 1000000 when the key is missing), growth_rate (percent; the      *)
(* default 5).  The forecast values themselves contain random noise and are *)
(* left out of the result; only what decides the outcome is kept.           *)

\* the keys of self.forecasting_models
forecasting_models == {"revenue", "expenses", "growth", "risk", "strategic"}

\* 'forecast_types' of get_capabilities
forecast_types == forecasting_models \cup {"comprehensive"}

\* (1 + rate) ** (i / 12) is a complex number when 1 + rate < 0 and i > 0,
\* and round(complex, 2) raises TypeError: _generate_revenue_forecast fails
\* from months = 2 on
RevenueForecastRaises(growth_rate, months) == growth_rate < -100 /\ months >= 2

\* _generate_expense_forecast uses 1 + growth_rate * 0.8
ExpenseForecastRaises(growth_rate, months) == 4 * growth_rate < -500 /\ months >= 2

\* the error of the except branch
ForecastFailure(kind, message) ==
    [raised |-> FALSE, success |-> FALSE,
     error |-> [kind |-> kind, message |-> message]]

UnknownForecastType(forecast_type) == <<"Unknown forecast type: ", forecast_type>>

\* slip: the type is looked up in forecasting_models, not in the agents
\* initialize has registered
execute_forecast_static_lookup(agent_set, data, forecast_type, horizon_months) ==
    IF ~data.is_dict THEN ForecastFailure("AttributeError", <<>>)
    ELSE IF forecast_type = "comprehensive"
    THEN IF RevenueForecastRaises(data.growth_rate, horizon_months)
         THEN ForecastFailure("TypeError", <<>>)
         ELSE IF horizon_months > 11 /\ data.current_revenue = 0
         THEN ForecastFailure("ZeroDivisionError", <<>>)
         ELSE [raised |-> FALSE, success |-> TRUE, forecast_type |-> forecast_type,
               horizon_months |-> horizon_months]
    ELSE IF forecast_type \notin forecasting_models
    THEN ForecastFailure("ValueError", UnknownForecastType(forecast_type))
    ELSE IF \/ forecast_type = "revenue"
               /\ RevenueForecastRaises(data.growth_rate, horizon_months)
            \/ forecast_type = "expenses"
               /\ ExpenseForecastRaises(data.growth_rate, horizon_months)
    THEN ForecastFailure("TypeError", <<>>)
    ELSE [raised |-> FALSE, success |-> TRUE, forecast_type |-> forecast_type,
          horizon_months |-> horizon_months]

\* The dict execute_forecast returns, from self.agents (the set of its keys)
\* and the arguments.
\*  - data.get on a non-dict raises AttributeError (line 131);
\*  - comprehensive: the revenue forecast is generated first; then
\*    _analyze_cross_departmental_impacts divides revenue_forecast[11] by
\*    revenue_forecast[0] when there are more than 11 months, which raises
\*    ZeroDivisionError when the base revenue is 0;
\*  - any other type is looked up in self.agents and is unknown when absent.
execute_forecast(agent_set, data, forecast_type, horizon_months) ==
    IF ~data.is_dict THEN ForecastFailure("AttributeError", <<>>)
    ELSE IF forecast_type = "comprehensive"
    THEN IF RevenueForecastRaises(data.growth_rate, horizon_months)
         THEN ForecastFailure("TypeError", <<>>)
         ELSE IF horizon_months > 11 /\ data.current_revenue = 0
         THEN ForecastFailure("ZeroDivisionError", <<>>)
         ELSE [raised |-> FALSE, success |-> TRUE, forecast_type |-> forecast_type,
               horizon_months |-> horizon_months]
    ELSE IF forecast_type \notin agent_set
    THEN ForecastFailure("ValueError", UnknownForecastType(forecast_type))
    ELSE IF \/ forecast_type = "revenue"
               /\ RevenueForecastRaises(data.growth_rate, horizon_months)
            \/ forecast_type = "expenses"
               /\ ExpenseForecastRaises(data.growth_rate, horizon_months)
    THEN ForecastFailure("TypeError", <<>>)
    ELSE [raised |-> FALSE, success |-> TRUE, forecast_type |-> forecast_type,
          horizon_months |-> horizon_months]

\* FinRobotIntegration.health_check
finrobot_health_check(agent_set) ==
    [status |-> "healthy", agents_active |-> Cardinality(agent_set),
     agent_details |-> agent_set]

\* FinRobotIntegration.get_capabilities
finrobot_get_capabilities ==
    [service |-> "finrobot", agents |-> forecasting_models,
     forecast_types |-> forecast_types,
     max_horizon_months |-> 60, min_horizon_months |-> 1]

-----------------------------------------------------------------------------
(* FinGPTIntegration                                                        *)
(* The text argument is a record: kind ("str", "none" for None, "other"     *)
(* for a truthy value that is not a string) and tokens, the whitespace-     *)
(* separated pieces of the string (empty for an empty or blank string).     *)
(* The context argument is a record: kind ("none", "dict", "other" for a    *)
(* truthy value that is not a dict), sector and market_condition (the       *)
(* default "" when the key is missing; NotAString for a value with no       *)
(* lower method).                                                           *)
(* A score is an exact fraction.  The three scores of a text share the      *)
(* denominator 100 * total, where total is the weight sum in half units     *)
(* (weight 1.0 is 2, weight 1.5 is 3), so that the factors 1.1 and 1.2 of   *)
(* the context keep the numerators whole.                                   *)

\* self.financial_keywords
financial_keywords ==
    [positive |-> {"profit", "growth", "increase", "bull", "rise", "gain", "up",
                   "strong", "outperform", "beat", "exceed", "bullish", "rally",
                   "surge", "boom", "expansion", "revenue", "earnings", "dividend",
                   "upgrade", "buy", "overweight", "momentum", "breakout"},
     negative |-> {"loss", "decline", "decrease", "bear", "fall", "drop", "down",
                   "weak", "underperform", "miss", "disappoint", "bearish", "crash",
                   "plunge", "recession", "contraction", "debt", "deficit", "cut",
                   "downgrade", "sell", "underweight", "volatility", "breakdown"},
     neutral |-> {"stable", "flat", "unchanged", "sideways", "consolidate",
                  "maintain", "steady", "hold", "neutral", "mixed"}]

\* a sector or market condition that is not a string
NotAString == "(not a string)"

\* str.lower() on the strings tried
Lower(string) ==
    CASE string = "Growth" -> "growth"
      [] string = "UP" -> "up"
      [] string = "AAPL" -> "aapl"
      [] string = "Tech" -> "tech"
      [] string = "BULL" -> "bull"
      [] OTHER -> string

\* _normalize_financial_text on one token: "(\d+)%" becomes "\1 percent" and
\* "\$(\d+)" becomes "\1 dollars"
NormalizeToken(token) ==
    CASE token = "5%" -> <<"5", "percent">>
      [] token = "$5" -> <<"5", "dollars">>
      [] OTHER -> <<token>>

\* normalized_text.lower().split()
RECURSIVE WordsOf(_)
WordsOf(tokens) ==
    IF tokens = <<>> THEN <<>>
    ELSE [i \in DOMAIN NormalizeToken(Head(tokens)) |->
              Lower(NormalizeToken(Head(tokens))[i])]
         \o WordsOf(Tail(tokens))

\* the entities _extract_financial_entities finds in one token: a stock
\* symbol (one to four capitals standing alone), a monetary amount, a
\* percentage
EntitiesOfToken(token) ==
    CASE token \in {"UP", "AAPL"} -> 1
      [] token = "$5" -> 1
      [] token = "5%" -> 1
      [] OTHER -> 0

\* len(entities)
RECURSIVE _extract_financial_entities(_)
_extract_financial_entities(tokens) ==
    IF tokens = <<>> THEN 0
    ELSE EntitiesOfToken(Head(tokens)) + _extract_financial_entities(Tail(tokens))

\* the weight the loop adds for one word, in half units
WordWeight(word) ==
    IF word \in financial_keywords.positive
    THEN [positive |-> IF word \in {"profit", "growth", "bullish"} THEN 3 ELSE 2,
          negative |-> 0, neutral |-> 0]
    ELSE IF word \in financial_keywords.negative
    THEN [positive |-> 0,
          negative |-> IF word \in {"loss", "bearish", "crash"} THEN 3 ELSE 2,
          neutral |-> 0]
    ELSE IF word \in financial_keywords.neutral
    THEN [positive |-> 0, negative |-> 0, neutral |-> 2]
    ELSE [positive |-> 0, negative |-> 0, neutral |-> 0]

\* the for loop of _calculate_sentiment_scores
RECURSIVE ScoreLoop(_, _)
ScoreLoop(words, scores) ==
    IF words = <<>> THEN scores
    ELSE ScoreLoop(Tail(words),
                   [k \in {"positive", "negative", "neutral"} |->
                        scores[k] + WordWeight(Head(words))[k]])

\* _calculate_sentiment_scores: the weights, divided by their total when the
\* total is positive
_calculate_sentiment_scores(words) ==
    LET scores == ScoreLoop(words, [positive |-> 0, negative |-> 0, neutral |-> 0])
        total == scores.positive + scores.negative + scores.neutral
    IN  IF total > 0
        THEN [k \in {"positive", "negative", "neutral"} |->
                  Frac(scores[k] * 100, total * 100)]
        ELSE [k \in {"positive", "negative", "neutral"} |-> Frac(0, 100)]

\* "score *= 1.1" and "score *= 1.2", the factor in percent
Scaled(score, percent) == Frac((score.num * percent) \div 100, score.den)

\* _enhance_with_context: first the sector, then the market condition
_enhance_with_context(scores, context) ==
    LET sector == Lower(context.sector)
        market_condition == Lower(context.market_condition)
        by_sector ==
            IF sector \in {"tech", "technology"}
            THEN [scores EXCEPT !.positive = Scaled(@, 110)]
            ELSE IF sector \in {"utility", "utilities"}
            THEN [scores EXCEPT !.neutral = Scaled(@, 120)]
            ELSE scores
    IN  IF market_condition = "bull"
        THEN [by_sector EXCEPT !.positive = Scaled(@, 110)]
        ELSE IF market_condition = "bear"
        THEN [by_sector EXCEPT !.negative = Scaled(@, 110)]
        ELSE by_sector

\* positive_score - negative_score
NetScore(scores) ==
    Frac(scores.positive.num - scores.negative.num, scores.positive.den)

\* max(-1, min(1, net_score))
Clamped(net_score) ==
    IF net_score.num > net_score.den THEN Frac(1, 1)
    ELSE IF net_score.num < -net_score.den THEN Frac(-1, 1)
    ELSE net_score

\* slip: the net score is returned as it is
determine_sentiment_unclamped(scores) ==
    LET net_score == NetScore(scores)
    IN  [sentiment |-> IF 10 * net_score.num > net_score.den THEN "positive"
                       ELSE IF 10 * net_score.num < -net_score.den THEN "negative"
                       ELSE "neutral",
         score |-> net_score]

\* slip: the thresholds belong to the positive and the negative label
determine_sentiment_inclusive(scores) ==
    LET net_score == NetScore(scores)
    IN  [sentiment |-> IF 10 * net_score.num >= net_score.den THEN "positive"
                       ELSE IF 10 * net_score.num <= -net_score.den THEN "negative"
                       ELSE "neutral",
         score |-> Clamped(net_score)]

\* _determine_sentiment (keywords and reasoning are left out): net_score > 0.1
\* is positive, net_score < -0.1 is negative
_determine_sentiment(scores) ==
    LET net_score == NetScore(scores)
    IN  [sentiment |-> IF 10 * net_score.num > net_score.den THEN "positive"
                       ELSE IF 10 * net_score.num < -net_score.den THEN "negative"
                       ELSE "neutral",
         score |-> Clamped(net_score)]

\* _calculate_confidence: 0.5 + min(total_sentiment * 0.3, 0.3)
\* + min(len(entities) * 0.05, 0.15) + (0.05 if 10 <= word_count <= 100),
\* capped at 0.95; entity_factor and length_factor are in hundredths
_calculate_confidence(scores, entities, word_count) ==
    LET total_sentiment ==
            Frac(scores.positive.num + scores.negative.num, scores.positive.den)
        keyword_factor ==
            RMin(Frac(total_sentiment.num * 3, total_sentiment.den * 10), Frac(3, 10))
        entity_factor == Min(entities * 5, 15)
        length_factor == IF 10 <= word_count /\ word_count <= 100 THEN 5 ELSE 0
        confidence ==
            Frac(keyword_factor.num * 100
                     + (50 + entity_factor + length_factor) * keyword_factor.den,
                 keyword_factor.den * 100)
    IN  RMin(confidence, Frac(95, 100))

\* "if context:" is false for None and for an empty dict
ContextGiven(context) ==
    context.kind = "other"
    \/ (context.kind = "dict" /\ context.keys # {})

\* _analyze_financial_sentiment (keywords, the entity list, reasoning and
\* financial_relevance are left out of the result)
_analyze_financial_sentiment(text, context) ==
    LET words == WordsOf(text.tokens)
        sentiment_scores ==
            IF ContextGiven(context)
            THEN _enhance_with_context(_calculate_sentiment_scores(words), context)
            ELSE _calculate_sentiment_scores(words)
        sentiment_result == _determine_sentiment(sentiment_scores)
        entities == _extract_financial_entities(text.tokens)
    IN  [sentiment |-> sentiment_result.sentiment,
         score |-> sentiment_result.score,
         confidence |-> _calculate_confidence(sentiment_scores, entities, Len(words)),
         sentiment_distribution |-> sentiment_scores,
         entities |-> entities,
         word_count |-> Len(words)]

\* the dict of the except branch
SentimentFailure(kind, message) ==
    [raised |-> FALSE, success |-> FALSE,
     error |-> [kind |-> kind, message |-> message]]

\* The dict analyze_sentiment returns.
\*  - "not text or not text.strip()": None, an empty or a blank string raise
\*    ValueError; any other value that is not a string has no strip method;
\*  - a context that is not a dict has no get method, and a sector or market
\*    condition that is not a string has no lower method.
analyze_sentiment(text, context) ==
    IF text.kind = "none" \/ (text.kind = "str" /\ text.tokens = <<>>)
    THEN SentimentFailure("ValueError", "Text input is required")
    ELSE IF text.kind # "str"
    THEN SentimentFailure("AttributeError", "")
    ELSE IF context.kind = "other"
    THEN SentimentFailure("AttributeError", "")
    ELSE IF ContextGiven(context)
            /\ (context.sector = NotAString \/ context.market_condition = NotAString)
    THEN SentimentFailure("AttributeError", "")
    ELSE [raised |-> FALSE, success |-> TRUE]
         @@ _analyze_financial_sentiment(text, context)

-----------------------------------------------------------------------------
(* The labels every returned dict carries: self is the object, of which     *)
(* only tenant_id is read.                                                  *)

\* 'tenantId': self.tenant_id, 'service': 'erpnext' of both branches of
\* process_payroll and optimize_bom
LabelledERPNext(self, outcome) ==
    outcome @@ [tenantId |-> self.tenant_id, service |-> "erpnext"]

\* 'tenant_id': self.tenant_id, 'service': 'finrobot' of both branches of
\* execute_forecast
LabelledFinRobot(self, outcome) ==
    outcome @@ [tenant_id |-> self.tenant_id, service |-> "finrobot"]

\* 'tenant_id': self.tenant_id, 'service': 'fingpt' of both branches of
\* analyze_sentiment
LabelledFinGPT(self, outcome) ==
    outcome @@ [tenant_id |-> self.tenant_id, service |-> "fingpt"]

-----------------------------------------------------------------------------
(* Inputs tried *)

\* gross pays (cents): a grid of 2500.00 steps, and the amounts around the
\* places where the code's behaviour changes (bracket thresholds / 12, the
\* social-security wage base / 12, the provident-fund cap / 0.12, the ESI and
\* pension thresholds / 12)
GrossPays ==
    {k * 250000 : k \in 0..MaxGrossSteps}
    \cup {1, 10, 82917, 83333, 83334, 100015, 104750, 180000,
          1334999, 1335000, 1335001, 1499999, 1500001, 2083333, 2083334}

Employees ==
    {[health_insurance_deduction |-> 0, loan_emi |-> 0, voluntary_deductions |-> <<>>],
     [health_insurance_deduction |-> 25000, loan_emi |-> 0, voluntary_deductions |-> <<>>],
     [health_insurance_deduction |-> 0, loan_emi |-> 50000,
      voluntary_deductions |-> [charity |-> 1000]],
     [health_insurance_deduction |-> 25000, loan_emi |-> -50000,
      voluntary_deductions |-> [charity |-> 1000, union |-> 0]]}

PayrollRegions == Regions \cup {"CA"}

\* an employee dict with none of the optional keys
EmployeeDefaults ==
    [employee_id |-> "", base_salary |-> 0, overtime_hours |-> 0,
     commission |-> 0, bonus |-> 0, level |-> "",
     has_transport_allowance |-> FALSE, has_meal_allowance |-> FALSE,
     health_insurance_deduction |-> 0, loan_emi |-> 0, voluntary_deductions |-> <<>>,
     health_insurance_plan |-> FALSE, retirement_contribution |-> 0,
     retirement_match_rate |-> Frac(1, 2), life_insurance_coverage |-> FALSE]

\* base salary 1000.15 and nothing else
EmployeePlain == [EmployeeDefaults EXCEPT !.employee_id = "E1", !.base_salary = 100015]

\* a manager with overtime, a bonus, a negative commission, allowances,
\* deductions of their own and all three benefits
EmployeeManager ==
    [EmployeeDefaults EXCEPT
        !.employee_id = "E2", !.base_salary = 333333, !.overtime_hours = 1,
        !.commission = -500, !.bonus = 10000, !.level = "manager",
        !.has_transport_allowance = TRUE, !.has_meal_allowance = TRUE,
        !.health_insurance_deduction = 25000,
        !.voluntary_deductions = [charity |-> 1000],
        !.health_insurance_plan = TRUE, !.retirement_contribution = 50000,
        !.life_insurance_coverage = TRUE]

ValidEmployees == {EmployeePlain, EmployeeManager}

\* no employee_id; base_salary missing or 0; base_salary negative
InvalidEmployees ==
    {[EmployeeDefaults EXCEPT !.base_salary = 500000],
     [EmployeeDefaults EXCEPT !.employee_id = "E4"],
     [EmployeeDefaults EXCEPT !.employee_id = "E5", !.base_salary = -100]}

PayrollEmployees == ValidEmployees \cup InvalidEmployees

\* the employee lists of up to MaxEmployees employees
EmployeeLists == UNION {[1..n -> PayrollEmployees] : n \in 0..MaxEmployees}

PayrollRequest(employees, period_start, period_end, region) ==
    [is_dict |-> TRUE, employees |-> employees, period_start |-> period_start,
     period_end |-> period_end, region |-> region]

\* process_payroll(None)
NotADict == [PayrollRequest(<<>>, FALSE, FALSE, NoRegion) EXCEPT !.is_dict = FALSE]

\* every list with both dates in the three configured regions; the short
\* lists also in an unconfigured region, with no region, and with a date
\* missing; and an argument that is not a dict
PayrollRequests ==
    {PayrollRequest(l, TRUE, TRUE, r) : l \in EmployeeLists, r \in Regions}
    \cup {PayrollRequest(l, TRUE, TRUE, r) :
              l \in {x \in EmployeeLists : Len(x) <= 1}, r \in {"CA", NoRegion}}
    \cup {PayrollRequest(l, d[1], d[2], NoRegion) :
              l \in {x \in EmployeeLists : Len(x) <= 1},
              d \in {<<FALSE, TRUE>>, <<TRUE, FALSE>>}}
    \cup {NotADict}

\* the requests of the concurrent callers
ConcurrentRequests ==
    {PayrollRequest(l, TRUE, TRUE, r) :
        l \in {<<EmployeePlain>>, <<EmployeeManager, EmployeePlain>>,
               <<EmployeePlain, EmployeeManager>>},
        r \in {"US", "UK"}}
    \cup {PayrollRequest(<<EmployeePlain, [EmployeeDefaults EXCEPT !.employee_id = "E4"]>>,
                         TRUE, TRUE, "US"),
          PayrollRequest(<<[EmployeeDefaults EXCEPT !.base_salary = 500000],
                           EmployeePlain>>, TRUE, TRUE, "US"),
          PayrollRequest(<<EmployeePlain,
                           [EmployeeDefaults EXCEPT !.employee_id = "E5",
                                                    !.base_salary = -100]>>,
                         TRUE, TRUE, "UK"),
          PayrollRequest(<<>>, TRUE, TRUE, "US"),
          PayrollRequest(<<EmployeePlain>>, FALSE, TRUE, "US"),
          PayrollRequest(<<EmployeePlain>>, TRUE, FALSE, "US"),
          NotADict}

Callers == {"a", "b"}

Component(part_number, quantity, unit_cost_is_number) ==
    [part_number |-> part_number, quantity |-> quantity,
     unit_cost_is_number |-> unit_cost_is_number]

BomRequests ==
    {[is_dict |-> TRUE, product_name |-> n, components_is_list |-> l, components |-> c] :
        n \in BOOLEAN, l \in BOOLEAN,
        c \in {<<>>, <<Component(TRUE, 1, TRUE)>>, <<Component(TRUE, 1, FALSE)>>,
               <<Component(FALSE, 2, TRUE)>>, <<Component(TRUE, 0, TRUE)>>,
               <<Component(TRUE, 3, TRUE), Component(TRUE, -1, TRUE)>>}}
    \cup {[is_dict |-> FALSE, product_name |-> FALSE, components_is_list |-> FALSE,
           components |-> <<>>]}

\* revenue the default 1000000.00 or 0; growth the default 5%, -110%, -150%
ForecastData ==
    {[is_dict |-> TRUE, current_revenue |-> 100000000, growth_rate |-> g] :
        g \in {5, -110, -150}}
    \cup {[is_dict |-> TRUE, current_revenue |-> 0, growth_rate |-> 5],
          [is_dict |-> FALSE, current_revenue |-> 0, growth_rate |-> 0]}

ForecastTypesTried == forecast_types \cup {"bogus", ""}

Horizons == {0, 1, 2, 12, 60, 61}

\* the tokens texts are made of: a positive and a negative keyword of weight
\* 1.5, a neutral keyword, a word outside the vocabulary, a capitalised
\* keyword, a keyword of weight 1.0 that is also a stock symbol, an amount
\* and a percentage
TokensTried == {"profit", "loss", "stable", "the", "Growth", "UP", "$5", "5%"}

\* "gain" and nine times "stable": ten words with net score 0.1
TextAtThreshold ==
    <<"gain", "stable", "stable", "stable", "stable",
      "stable", "stable", "stable", "stable", "stable">>

\* "fall" and nine times "stable": net score -0.1
TextAtNegativeThreshold ==
    <<"fall", "stable", "stable", "stable", "stable",
      "stable", "stable", "stable", "stable", "stable">>

\* four entities and eleven words, with keywords
TextWithEntities == <<"AAPL", "UP", "$5", "5%", "profit", "the", "the", "the", "the">>

\* the strings of up to MaxTokens tokens and the three long ones; None; a
\* value that is not a string
Texts ==
    {[kind |-> "str", tokens |-> w] :
        w \in UNION {[1..n -> TokensTried] : n \in 0..MaxTokens}
               \cup {TextAtThreshold, TextAtNegativeThreshold, TextWithEntities,
                     <<"profit", "fall", "the">>, <<"gain", "loss", "stable">>}}
    \cup {[kind |-> "none", tokens |-> <<>>], [kind |-> "other", tokens |-> <<>>]}

\* a context dict with the given keys
Context(keys, sector, market_condition) ==
    [kind |-> "dict", keys |-> keys, sector |-> sector,
     market_condition |-> market_condition]

\* context=None
NoContext == [Context({}, "", "") EXCEPT !.kind = "none"]

\* None, {}, a dict with another key only, the sectors and market
\* conditions the code knows (one in capitals), their combinations, values
\* that are not strings, and a context that is not a dict
Contexts ==
    {NoContext, Context({}, "", ""), Context({"ticker"}, "", ""),
     [NoContext EXCEPT !.kind = "other"],
     Context({"sector"}, NotAString, ""),
     Context({"market_condition"}, "", NotAString)}
    \cup {Context({"sector"}, sector, "") : sector \in {"tech", "Tech", "utilities"}}
    \cup {Context({"market_condition"}, "", market_condition) :
              market_condition \in {"bull", "BULL", "bear"}}
    \cup {Context({"sector", "market_condition"}, "tech", "bull"),
          Context({"sector", "market_condition"}, "tech", "bear"),
          Context({"sector", "market_condition"}, "utilities", "bear")}

Services == {"erpnext", "finrobot", "fingpt"}

\* no public method called yet
NoCall == [op |-> "none", input |-> <<>>, outcome |-> NoResult]

\* a caller that has not called process_payroll
Idle == [NewCall(NotADict) EXCEPT !.pc = "idle"]

\* the calls of analyze_sentiment tried: the texts of at most one token and
\* the long ones with every context, every text with two of the contexts
SentimentInputs ==
    ({text \in Texts : Len(text.tokens) # 2} \X Contexts)
    \cup (Texts \X {NoContext,
                    Context({"sector", "market_condition"}, "tech", "bull")})

\* the tenant ids two customers construct their objects with
Tenants == {"t1", "t2"}

\* the ERPNextIntegration, FinRobotIntegration and FinGPTIntegration objects
\* constructed with one tenant id: each __init__ builds its own dicts, and
\* no class or module attribute holds data
NewInstances(tenant_id) ==
    [tenant_id |-> tenant_id,
     tax_configurations |-> InitialTaxConfigurations,
     modules |-> {},
     agents |-> {},
     result |-> NoCall]

\* no method called on any tenant's object yet
NoInvocation == [tenant |-> "(none)", op |-> "none"]

\* analyze_batch not called
NoBatch ==
    [pc |-> "idle", texts |-> <<>>, context |-> NoContext, pending |-> {},
     completed |-> <<>>, results |-> <<>>, processed_results |-> <<>>]

-----------------------------------------------------------------------------
(* Payroll instance: state after __init__, and the operations *)

\* the service objects as constructed, with no call made
FreshServices ==
    /\ modules = {}
    /\ agents = {}
    /\ lifecycle = {}
    /\ result = NoCall
    /\ payroll_calls = [c \in Callers |-> Idle]
    /\ prog_log = <<>>
    /\ instances = [t \in Tenants |-> NewInstances(t)]
    /\ invoked = NoInvocation
    /\ batch = NoBatch

Init ==
    /\ tax_configurations = InitialTaxConfigurations
    /\ tax_brackets = <<>>
    /\ prog_call = NoProgCall
    /\ ded_call = NoDedCall
    /\ service = "erpnext"
    /\ FreshServices

CalculateDeductions(employee, gross_pay, region) ==
    /\ ded_call' =
           [called |-> TRUE,
            employee |-> employee,
            gross_pay |-> gross_pay,
            region |-> region,
            tax_call |-> IncomeTaxInvocation(tax_configurations, gross_pay, region),
            deductions |-> _calculate_deductions(tax_configurations, employee,
                                                 gross_pay, region)]
    /\ UNCHANGED <<tax_configurations, tax_brackets, prog_call>>
    /\ UNCHANGED service_vars
    /\ UNCHANGED tenant_vars

Next ==
    \E employee \in Employees, gross_pay \in GrossPays, region \in PayrollRegions :
        CalculateDeductions(employee, gross_pay, region)

Spec == Init /\ [][Next]_vars

-----------------------------------------------------------------------------
(* Direct callers of _calculate_progressive_tax: the function takes any     *)
(* number and any list of (threshold, rate) pairs.  A behaviour of SpecTax  *)
(* fixes one table and calls the function on it with any of the amounts.    *)

\* thresholds 0, 100.00, 1000.00 and rates 0, 0.10, 0.12, 0.20, 1.50
BracketChoices == {0, 10000, 100000} \X {0, 10, 12, 20, 150}

BracketTables ==
    UNION {[1..n -> BracketChoices] : n \in 0..MaxBrackets}

\* amounts (cents): -5.00, 0, 0.01, the thresholds and their neighbours,
\* 1500.00, 1800.00
Amounts == {-500, 0, 1, 9999, 10000, 10001, 99999, 100000, 100001, 150000, 180000}

InitTax ==
    /\ tax_configurations = InitialTaxConfigurations
    /\ tax_brackets \in BracketTables
    /\ prog_call = NoProgCall
    /\ ded_call = NoDedCall
    /\ service = "erpnext"
    /\ FreshServices

CalculateProgressiveTax(annual_income) ==
    /\ prog_call' = ProgInvocation(annual_income, tax_brackets)
    /\ UNCHANGED <<tax_configurations, tax_brackets, ded_call>>
    /\ UNCHANGED service_vars
    /\ UNCHANGED tenant_vars

NextTax == \E annual_income \in Amounts : CalculateProgressiveTax(annual_income)

SpecTax == InitTax /\ [][NextTax]_vars

-----------------------------------------------------------------------------
(* The public methods of the three integration classes.  A behaviour of     *)
(* SpecServices constructs one object and calls its public methods in any   *)
(* order, each call running to its return.                                  *)

InitServices ==
    /\ tax_configurations = InitialTaxConfigurations
    /\ tax_brackets = <<>>
    /\ prog_call = NoProgCall
    /\ ded_call = NoDedCall
    /\ service \in Services
    /\ FreshServices

Call(op, input, outcome) == [op |-> op, input |-> input, outcome |-> outcome]

\* a method that returns nothing of interest (None, or True)
Returned == [raised |-> FALSE]

\* ERPNextIntegration.initialize: the five _initialize_* methods assign one
\* attribute each; none of them can fail
Initialize ==
    /\ service = "erpnext"
    /\ modules' = modules \cup ModuleNames
    /\ lifecycle' = lifecycle \cup {"initialize"}
    /\ result' = Call("initialize", <<>>, Returned)
    /\ UNCHANGED <<tax_configurations, tax_brackets, prog_call, ded_call,
                   service, agents, payroll_calls, prog_log>>
    /\ UNCHANGED tenant_vars

\* slip: the region's configuration is fetched with setdefault, which stores
\* the US fallback under a region that has no configuration
ProcessPayroll_setdefault(payroll_data) ==
    /\ service = "erpnext"
    /\ result' = Call("process_payroll", payroll_data,
                      process_payroll(tax_configurations, payroll_data))
    /\ tax_configurations' =
           IF process_payroll(tax_configurations, payroll_data).success
              /\ RegionOf(payroll_data) \notin DOMAIN tax_configurations
           THEN tax_configurations
                @@ (RegionOf(payroll_data) :> tax_configurations["US"])
           ELSE tax_configurations
    /\ UNCHANGED <<tax_brackets, prog_call, ded_call,
                   service, modules, agents, lifecycle, payroll_calls, prog_log>>
    /\ UNCHANGED tenant_vars

\* ERPNextIntegration.process_payroll: reads self.tax_configurations and
\* assigns no attribute
ProcessPayroll(payroll_data) ==
    /\ service = "erpnext"
    /\ result' = Call("process_payroll", payroll_data,
                      process_payroll(tax_configurations, payroll_data))
    /\ UNCHANGED <<tax_configurations, tax_brackets, prog_call, ded_call,
                   service, modules, agents, lifecycle, payroll_calls, prog_log>>
    /\ UNCHANGED tenant_vars

OptimizeBom(bom_data) ==
    /\ service = "erpnext"
    /\ result' = Call("optimize_bom", bom_data, optimize_bom(bom_data))
    /\ UNCHANGED <<tax_configurations, tax_brackets, prog_call, ded_call,
                   service, modules, agents, lifecycle, payroll_calls, prog_log>>
    /\ UNCHANGED tenant_vars

HealthCheck ==
    /\ service = "erpnext"
    /\ result' = Call("health_check", <<>>, health_check(modules))
    /\ UNCHANGED <<tax_configurations, tax_brackets, prog_call, ded_call,
                   service, modules, agents, lifecycle, payroll_calls, prog_log>>
    /\ UNCHANGED tenant_vars

GetCapabilities ==
    /\ service = "erpnext"
    /\ result' = Call("get_capabilities", <<>>, get_capabilities(tax_configurations))
    /\ UNCHANGED <<tax_configurations, tax_brackets, prog_call, ded_call,
                   service, modules, agents, lifecycle, payroll_calls, prog_log>>
    /\ UNCHANGED tenant_vars

\* slip: shutdown deletes the module attributes
Shutdown_clearing_modules ==
    /\ service = "erpnext"
    /\ modules' = {}
    /\ lifecycle' = lifecycle \cup {"shutdown"}
    /\ result' = Call("shutdown", <<>>, Returned)
    /\ UNCHANGED <<tax_configurations, tax_brackets, prog_call, ded_call,
                   service, agents, payroll_calls, prog_log>>
    /\ UNCHANGED tenant_vars

\* ERPNextIntegration.shutdown only logs
Shutdown ==
    /\ service = "erpnext"
    /\ lifecycle' = lifecycle \cup {"shutdown"}
    /\ result' = Call("shutdown", <<>>, Returned)
    /\ UNCHANGED <<tax_configurations, tax_brackets, prog_call, ded_call,
                   service, modules, agents, payroll_calls, prog_log>>
    /\ UNCHANGED tenant_vars

\* FinRobotIntegration.initialize: self.agents[name] = config for every
\* entry of forecasting_models
FinRobotInitialize ==
    /\ service = "finrobot"
    /\ agents' = agents \cup forecasting_models
    /\ lifecycle' = lifecycle \cup {"initialize"}
    /\ result' = Call("initialize", <<>>, Returned)
    /\ UNCHANGED <<tax_configurations, tax_brackets, prog_call, ded_call,
                   service, modules, payroll_calls, prog_log>>
    /\ UNCHANGED tenant_vars

ExecuteForecast(data, forecast_type, horizon_months) ==
    /\ service = "finrobot"
    /\ result' = Call("execute_forecast",
                      [data |-> data, forecast_type |-> forecast_type,
                       horizon_months |-> horizon_months],
                      execute_forecast(agents, data, forecast_type, horizon_months))
    /\ UNCHANGED <<tax_configurations, tax_brackets, prog_call, ded_call,
                   service, modules, agents, lifecycle, payroll_calls, prog_log>>
    /\ UNCHANGED tenant_vars

FinRobotHealthCheck ==
    /\ service = "finrobot"
    /\ result' = Call("health_check", <<>>, finrobot_health_check(agents))
    /\ UNCHANGED <<tax_configurations, tax_brackets, prog_call, ded_call,
                   service, modules, agents, lifecycle, payroll_calls, prog_log>>
    /\ UNCHANGED tenant_vars

FinRobotGetCapabilities ==
    /\ service = "finrobot"
    /\ result' = Call("get_capabilities", <<>>, finrobot_get_capabilities)
    /\ UNCHANGED <<tax_configurations, tax_brackets, prog_call, ded_call,
                   service, modules, agents, lifecycle, payroll_calls, prog_log>>
    /\ UNCHANGED tenant_vars

\* FinRobotIntegration.shutdown only logs
FinRobotShutdown ==
    /\ service = "finrobot"
    /\ lifecycle' = lifecycle \cup {"shutdown"}
    /\ result' = Call("shutdown", <<>>, Returned)
    /\ UNCHANGED <<tax_configurations, tax_brackets, prog_call, ded_call,
                   service, modules, agents, payroll_calls, prog_log>>
    /\ UNCHANGED tenant_vars

\* FinGPTIntegration.initialize loads nothing and returns True
FinGPTInitialize ==
    /\ service = "fingpt"
    /\ lifecycle' = lifecycle \cup {"initialize"}
    /\ result' = Call("initialize", <<>>, Returned)
    /\ UNCHANGED <<tax_configurations, tax_brackets, prog_call, ded_call,
                   service, modules, agents, payroll_calls, prog_log>>
    /\ UNCHANGED tenant_vars

AnalyzeSentiment(text, context) ==
    /\ service = "fingpt"
    /\ result' = Call("analyze_sentiment", [text |-> text, context |-> context],
                      analyze_sentiment(text, context))
    /\ UNCHANGED <<tax_configurations, tax_brackets, prog_call, ded_call,
                   service, modules, agents, lifecycle, payroll_calls, prog_log>>
    /\ UNCHANGED tenant_vars

NextServices ==
    \/ Initialize
    \/ \E payroll_data \in PayrollRequests : ProcessPayroll(payroll_data)
    \/ \E bom_data \in BomRequests : OptimizeBom(bom_data)
    \/ HealthCheck
    \/ GetCapabilities
    \/ Shutdown
    \/ FinRobotInitialize
    \/ \E data \in ForecastData, forecast_type \in ForecastTypesTried,
          horizon_months \in Horizons :
           ExecuteForecast(data, forecast_type, horizon_months)
    \/ FinRobotHealthCheck
    \/ FinRobotGetCapabilities
    \/ FinRobotShutdown
    \/ FinGPTInitialize
    \/ \E input \in SentimentInputs : AnalyzeSentiment(input[1], input[2])

SpecServices == InitServices /\ [][NextServices]_vars

-----------------------------------------------------------------------------
(* Concurrent callers of process_payroll on one ERPNext instance.  Every    *)
(* await inside process_payroll is a point where another caller may run;    *)
(* a behaviour of SpecConcurrent interleaves the callers' steps freely.     *)

ActivePcs == {"validate", "employees", "finish"}

\* the call is made: the activation is created
BeginPayroll(c, payroll_data) ==
    /\ payroll_calls[c].pc = "idle"
    /\ payroll_calls' = [payroll_calls EXCEPT ![c] = NewCall(payroll_data)]
    /\ UNCHANGED <<tax_configurations, tax_brackets, prog_call, ded_call,
                   service, modules, agents, lifecycle, result, prog_log>>
    /\ UNCHANGED tenant_vars

\* bookkeeping of the interleaving: an activation that is under way while
\* another caller takes a step has been interleaved with it
MarkInterleaved(stepped, c) ==
    [d \in DOMAIN stepped |->
        IF d # c /\ stepped[d].pc \in ActivePcs
        THEN [stepped[d] EXCEPT !.interleaved = TRUE]
        ELSE IF d = c /\ \E e \in DOMAIN stepped : e # c /\ stepped[e].pc \in ActivePcs
        THEN [stepped[d] EXCEPT !.interleaved = TRUE]
        ELSE stepped[d]]

\* caller c's activation takes its next step
StepPayroll(c) ==
    /\ payroll_calls[c].pc \in ActivePcs
    /\ payroll_calls' =
           MarkInterleaved(PayrollStep(tax_configurations, payroll_calls, c), c)
    /\ UNCHANGED <<tax_configurations, tax_brackets, prog_call, ded_call,
                   service, modules, agents, lifecycle, result, prog_log>>
    /\ UNCHANGED tenant_vars

NextConcurrent ==
    \/ \E c \in Callers, payroll_data \in ConcurrentRequests :
           BeginPayroll(c, payroll_data)
    \/ \E c \in Callers : StepPayroll(c)

SpecConcurrent == Init /\ [][NextConcurrent]_vars

-----------------------------------------------------------------------------
(* A caller that invokes _calculate_progressive_tax several times, on the   *)
(* built-in tables, and keeps what each invocation returned.                *)

LogTables == {RegionBrackets(InitialTaxConfigurations[r], r) : r \in Regions}

\* annual amounts (cents): 0, 12000.00, 50000.00, 120000.00
LogAmounts == {0, 1200000, 5000000, 12000000}

LogProgressiveTax(annual_income, brackets) ==
    /\ Len(prog_log) < MaxLog
    /\ tax_brackets' = brackets
    /\ prog_call' = ProgInvocation(annual_income, brackets)
    /\ prog_log' = Append(prog_log, ProgInvocation(annual_income, brackets))
    /\ UNCHANGED <<tax_configurations, ded_call,
                   service, modules, agents, lifecycle, result, payroll_calls>>
    /\ UNCHANGED tenant_vars

NextLog ==
    \E annual_income \in LogAmounts, brackets \in LogTables :
        LogProgressiveTax(annual_income, brackets)

SpecLog == Init /\ [][NextLog]_vars

-----------------------------------------------------------------------------
(* _calculate_employer_liabilities on the employee results of payrolls of   *)
(* any size: the function reads the gross_pay and the benefits of each      *)
(* result and the region of the request.  A behaviour of SpecLiabilities    *)
(* calls it on lists of results whose gross pays go up to 200000.00 a       *)
(* month, the size at which the UK apprenticeship levy starts.              *)

\* gross pays (cents): 1000.15, 3333.33, 100000.00, 200000.00
LiabilityGrossPays == {100015, 333333, 10000000, 20000000}

\* the 'calculations' of an employee result, as far as the function reads them
LiabilityResults ==
    {[gross_pay |-> gross_pay, benefits |-> benefits] :
        gross_pay \in LiabilityGrossPays,
        benefits \in {<<>>, [health_insurance |-> 40000]}}

LiabilityResultLists == UNION {[1..n -> LiabilityResults] : n \in 0..MaxEmployees}

CalculateEmployerLiabilities(payroll_results, region) ==
    /\ result' = Call("_calculate_employer_liabilities",
                      [payroll_results |-> payroll_results, region |-> region],
                      _calculate_employer_liabilities(
                          payroll_results, PayrollRequest(<<>>, TRUE, TRUE, region)))
    /\ UNCHANGED <<tax_configurations, tax_brackets, prog_call, ded_call,
                   service, modules, agents, lifecycle, payroll_calls, prog_log>>
    /\ UNCHANGED tenant_vars

NextLiabilities ==
    \E payroll_results \in LiabilityResultLists, region \in PayrollRegions \cup {NoRegion} :
        CalculateEmployerLiabilities(payroll_results, region)

SpecLiabilities == Init /\ [][NextLiabilities]_vars

-----------------------------------------------------------------------------
(* FinGPTIntegration.analyze_batch.  A behaviour of SpecBatch makes one     *)
(* call: the call creates one analyze_sentiment coroutine per text and      *)
(* hands them to asyncio.gather; the analyses complete one at a time, in    *)
(* any order; when all have completed, gather returns their results in the  *)
(* order of its arguments and the loop numbers them.                        *)

\* the texts of a batch: two that succeed, an empty string, None, and a
\* value that is not a string
BatchTexts ==
    {[kind |-> "str", tokens |-> <<"profit">>],
     [kind |-> "str", tokens |-> <<"loss", "the">>],
     [kind |-> "str", tokens |-> <<>>],
     [kind |-> "none", tokens |-> <<>>],
     [kind |-> "other", tokens |-> <<>>]}

BatchTextLists == UNION {[1..n -> BatchTexts] : n \in 0..MaxBatch}

BatchContexts == {NoContext, Context({"sector", "market_condition"}, "tech", "bull")}

\* every variable but batch
other_than_batch ==
    <<tax_configurations, tax_brackets, prog_call, ded_call, service_vars,
      instances, invoked>>

\* lines 306-307: the coroutines are created and gather is awaited
BeginBatch(texts, context) ==
    /\ batch.pc = "idle"
    /\ batch' = [pc |-> "gathering", texts |-> texts, context |-> context,
                 pending |-> DOMAIN texts, completed |-> <<>>,
                 results |-> [i \in DOMAIN texts |-> NoResult],
                 processed_results |-> <<>>]
    /\ UNCHANGED other_than_batch

\* one of the analyses runs to its return
CompleteAnalysis(i) ==
    /\ batch.pc = "gathering"
    /\ i \in batch.pending
    /\ batch' = [batch EXCEPT
                     !.pending = @ \ {i},
                     !.completed = Append(@, i),
                     !.results[i] = LabelledFinGPT([tenant_id |-> "t1"],
                                        analyze_sentiment(batch.texts[i], batch.context))]
    /\ UNCHANGED other_than_batch

\* lines 310-321 for one result of gather, with i counting from 0
Processed(result_of_gather, i) ==
    IF result_of_gather.raised
    THEN [success |-> FALSE, error |-> result_of_gather.error, index |-> i,
          service |-> "fingpt"]
    ELSE result_of_gather @@ [index |-> i]

\* slip: the results are taken in the order the analyses completed
ReturnBatch_as_completed ==
    /\ batch.pc = "gathering"
    /\ batch.pending = {}
    /\ batch' = [batch EXCEPT
                     !.pc = "returned",
                     !.processed_results =
                         [i \in DOMAIN batch.completed |->
                              Processed(batch.results[batch.completed[i]], i - 1)]]
    /\ UNCHANGED other_than_batch

\* gather returns the results in the order of the coroutines; lines 310-323
ReturnBatch ==
    /\ batch.pc = "gathering"
    /\ batch.pending = {}
    /\ batch' = [batch EXCEPT
                     !.pc = "returned",
                     !.processed_results =
                         [i \in DOMAIN batch.texts |->
                              Processed(batch.results[i], i - 1)]]
    /\ UNCHANGED other_than_batch

NextBatch ==
    \/ \E texts \in BatchTextLists, context \in BatchContexts : BeginBatch(texts, context)
    \/ \E i \in 1..MaxBatch + 1 : CompleteAnalysis(i)
    \/ ReturnBatch

SpecBatch == Init /\ [][NextBatch]_vars

-----------------------------------------------------------------------------
(* Two tenants.  A behaviour of SpecTenants constructs the three objects    *)
(* of each tenant and calls, in any order, public methods of any of them.   *)
(* instances[t] holds what the objects constructed with tenant id t keep    *)
(* (self.tax_configurations, the module attributes, self.agents) and the    *)
(* dict their most recent call returned.                                    *)

\* the requests the tenants make: a valid payroll in a configured and in an
\* unconfigured region, an invalid one, and an argument that is not a dict
TenantPayrollRequests ==
    {PayrollRequest(<<EmployeePlain>>, TRUE, TRUE, "US"),
     PayrollRequest(<<EmployeeManager>>, TRUE, TRUE, "CA"),
     PayrollRequest(<<>>, TRUE, TRUE, "UK"),
     NotADict}

TenantForecasts ==
    {[data |-> data, forecast_type |-> forecast_type, horizon_months |-> 12] :
        data \in {d \in ForecastData : d.growth_rate \in {0, 5}},
        forecast_type \in {"revenue", "comprehensive"}}

TenantTexts ==
    {[kind |-> "str", tokens |-> <<"profit">>], [kind |-> "str", tokens |-> <<>>]}

\* every variable but instances and invoked
other_than_tenants ==
    <<tax_configurations, tax_brackets, prog_call, ded_call, service_vars, batch>>

\* slip: the module attributes are class attributes, shared by every object
TenantInitialize_class_attributes(t) ==
    /\ instances' = [u \in Tenants |->
                         [instances[u] EXCEPT
                              !.modules = @ \cup ModuleNames,
                              !.result = IF u = t
                                         THEN Call("initialize", <<>>, Returned)
                                         ELSE @]]
    /\ invoked' = [tenant |-> t, op |-> "initialize"]
    /\ UNCHANGED other_than_tenants

\* ERPNextIntegration.initialize on tenant t's object
TenantInitialize(t) ==
    /\ instances' = [instances EXCEPT
                         ![t].modules = @ \cup ModuleNames,
                         ![t].result = Call("initialize", <<>>, Returned)]
    /\ invoked' = [tenant |-> t, op |-> "initialize"]
    /\ UNCHANGED other_than_tenants

\* ERPNextIntegration.process_payroll on tenant t's object
TenantProcessPayroll(t, payroll_data) ==
    /\ instances' =
           [instances EXCEPT
                ![t].result =
                    Call("process_payroll", payroll_data,
                         LabelledERPNext(instances[t],
                             process_payroll(instances[t].tax_configurations,
                                             payroll_data)))]
    /\ invoked' = [tenant |-> t, op |-> "process_payroll"]
    /\ UNCHANGED other_than_tenants

\* ERPNextIntegration.optimize_bom on tenant t's object
TenantOptimizeBom(t, bom_data) ==
    /\ instances' =
           [instances EXCEPT
                ![t].result = Call("optimize_bom", bom_data,
                                   LabelledERPNext(instances[t], optimize_bom(bom_data)))]
    /\ invoked' = [tenant |-> t, op |-> "optimize_bom"]
    /\ UNCHANGED other_than_tenants

\* ERPNextIntegration.health_check on tenant t's object
TenantHealthCheck(t) ==
    /\ instances' =
           [instances EXCEPT
                ![t].result = Call("health_check", <<>>,
                                   LabelledERPNext(instances[t],
                                                   health_check(instances[t].modules)))]
    /\ invoked' = [tenant |-> t, op |-> "health_check"]
    /\ UNCHANGED other_than_tenants

\* FinRobotIntegration.initialize on tenant t's object
TenantFinRobotInitialize(t) ==
    /\ instances' = [instances EXCEPT
                         ![t].agents = @ \cup forecasting_models,
                         ![t].result = Call("initialize", <<>>, Returned)]
    /\ invoked' = [tenant |-> t, op |-> "initialize"]
    /\ UNCHANGED other_than_tenants

\* FinRobotIntegration.execute_forecast on tenant t's object
TenantExecuteForecast(t, request) ==
    /\ instances' =
           [instances EXCEPT
                ![t].result =
                    Call("execute_forecast", request,
                         LabelledFinRobot(instances[t],
                             execute_forecast(instances[t].agents, request.data,
                                              request.forecast_type,
                                              request.horizon_months)))]
    /\ invoked' = [tenant |-> t, op |-> "execute_forecast"]
    /\ UNCHANGED other_than_tenants

\* FinGPTIntegration.analyze_sentiment on tenant t's object
TenantAnalyzeSentiment(t, text, context) ==
    /\ instances' =
           [instances EXCEPT
                ![t].result =
                    Call("analyze_sentiment", [text |-> text, context |-> context],
                         LabelledFinGPT(instances[t], analyze_sentiment(text, context)))]
    /\ invoked' = [tenant |-> t, op |-> "analyze_sentiment"]
    /\ UNCHANGED other_than_tenants

NextTenants ==
    \E t \in Tenants :
        \/ TenantInitialize(t)
        \/ \E payroll_data \in TenantPayrollRequests :
               TenantProcessPayroll(t, payroll_data)
        \/ \E bom_data \in {b \in BomRequests : ~b.is_dict \/ b.components = <<>>} :
               TenantOptimizeBom(t, bom_data)
        \/ TenantHealthCheck(t)
        \/ TenantFinRobotInitialize(t)
        \/ \E request \in TenantForecasts : TenantExecuteForecast(t, request)
        \/ \E text \in TenantTexts : TenantAnalyzeSentiment(t, text, NoContext)

SpecTenants == Init /\ [][NextTenants]_vars

-----------------------------------------------------------------------------
(* The TaxBracket invariants of the specification *)

\* non-empty, first lower bound 0, strictly increasing lower bounds
ValidBrackets(b) ==
    /\ Len(b) >= 1
    /\ b[1][1] = 0
    /\ \A i \in 1..(Len(b) - 1) : b[i][1] < b[i + 1][1]

\* every rate in [0, 1]
RatesInRange(b) == \A i \in 1..Len(b) : b[i][2] >= 0 /\ b[i][2] <= PercentDen

RECURSIVE MaxRate(_, _)
MaxRate(b, i) ==
    IF i > Len(b) THEN 0
    ELSE LET m == MaxRate(b, i + 1) IN IF b[i][2] > m THEN b[i][2] ELSE m

\* The specification's formula: the sum over the brackets whose lower bound
\* t_i is strictly below the amount of (min(amount, t_{i+1}) - t_i) * rate_i,
\* with t_{i+1} = +infinity for the last bracket.
RECURSIVE SliceSum(_, _, _)
SliceSum(amount, b, i) ==
    IF i > Len(b) THEN 0
    ELSE (IF b[i][1] < amount
          THEN ((IF i < Len(b) THEN Min(amount, b[i + 1][1]) ELSE amount) - b[i][1])
               * b[i][2]
          ELSE 0)
         + SliceSum(amount, b, i + 1)

-----------------------------------------------------------------------------
(* Properties *)

\* C1: on a table that satisfies the TaxBracket invariants and an amount
\* >= 0, _calculate_progressive_tax returns exactly the specification's sum
\* of slices; brackets at or above the amount contribute nothing.
C1_ProgressiveIsSliceSum ==
    (prog_call.called /\ ValidBrackets(prog_call.tax_brackets)
        /\ prog_call.annual_income >= 0)
    => /\ prog_call.outcome = "returned"
       /\ prog_call.total_tax =
              SliceSum(prog_call.annual_income, prog_call.tax_brackets, 1)

\* a call strictly inside the second of three brackets: two brackets
\* contribute, the third does not
C1_Witness ==
    /\ prog_call.called
    /\ prog_call.tax_brackets = <<<<0, 10>>, <<10000, 20>>, <<100000, 12>>>>
    /\ prog_call.annual_income = 99999
    /\ prog_call.total_tax = 10000 * 10 + 89999 * 20

\* C2: a call with a malformed table (empty, lower bounds not strictly
\* increasing, first lower bound not 0, or a rate outside [0,1]) and an
\* amount >= 0 fails with InvalidConfiguration and returns no amount.
C2_MalformedTableRejected ==
    (prog_call.called /\ prog_call.annual_income >= 0
        /\ ~(ValidBrackets(prog_call.tax_brackets) /\ RatesInRange(prog_call.tax_brackets)))
    => prog_call.outcome = "InvalidConfiguration"

\* C3: a call with a negative base amount (and a well-formed table) fails
\* with InvalidInput.
C3_NegativeAmountRejected ==
    (prog_call.called /\ prog_call.annual_income < 0
        /\ ValidBrackets(prog_call.tax_brackets) /\ RatesInRange(prog_call.tax_brackets))
    => prog_call.outcome = "InvalidInput"

\* C4: for a fixed valid table with rates in [0,1] the amount returned is
\* non-decreasing in the base amount: the value returned for the amount of
\* the call is at least the value the function has at every smaller
\* amount >= 0.
C4_Monotone ==
    (prog_call.called /\ ValidBrackets(prog_call.tax_brackets)
        /\ RatesInRange(prog_call.tax_brackets) /\ prog_call.annual_income >= 0)
    => \A x \in Amounts :
           (0 <= x /\ x <= prog_call.annual_income)
           => _calculate_progressive_tax(x, prog_call.tax_brackets) <= prog_call.total_tax

\* a call above the last threshold of a table whose rates decrease, the
\* tax being more than at the threshold below it
C4_Witness ==
    /\ prog_call.called
    /\ prog_call.tax_brackets = <<<<0, 20>>, <<10000, 10>>, <<100000, 0>>>>
    /\ prog_call.annual_income = 100001
    /\ prog_call.total_tax = 10000 * 20 + 90000 * 10
    /\ _calculate_progressive_tax(10000, prog_call.tax_brackets) < prog_call.total_tax

\* C5: no jump at a bracket boundary: for a valid table with rates in [0,1],
\* x >= 0 and d >= 0, owed(x + d) - owed(x) <= d * (largest rate), also when
\* x or x + d is a threshold.
C5_NoJump ==
    (prog_call.called /\ ValidBrackets(prog_call.tax_brackets)
        /\ RatesInRange(prog_call.tax_brackets) /\ prog_call.annual_income >= 0)
    => \A x \in Amounts :
           (0 <= x /\ x <= prog_call.annual_income)
           => prog_call.total_tax - _calculate_progressive_tax(x, prog_call.tax_brackets)
                  <= (prog_call.annual_income - x) * MaxRate(prog_call.tax_brackets, 1)

\* a call one cent above a threshold where the marginal rate rises from
\* 0.10 to 0.20: one cent more owes 0.20 cent more, not a step
C5_Witness ==
    /\ prog_call.called
    /\ prog_call.tax_brackets = <<<<0, 10>>, <<100000, 20>>>>
    /\ prog_call.annual_income = 100001
    /\ prog_call.total_tax
           - _calculate_progressive_tax(100000, prog_call.tax_brackets) = 20

\* the built-in annual table of a region
BuiltInBrackets(region) ==
    IF region = "US"
    THEN InitialTaxConfigurations["US"].federal_income_tax.brackets
    ELSE InitialTaxConfigurations[region].income_tax.brackets

IncomeTaxKey(region) == IF region = "US" THEN "federal_income_tax" ELSE "income_tax"

\* C6: for US, IN and UK the income-tax deduction of the period is the
\* progressive calculation run on 12 * gross pay against the region's
\* annual table, divided by 12 (and rounded to cents; a deduction of 0 is
\* left out); the calculation is run on the annualized amount, not on the
\* period amount.
C6_AnnualizeComputeDeannualize ==
    (ded_call.called /\ ded_call.region \in Regions)
    => LET annual == 12 * ded_call.gross_pay
           owed == SliceSum(annual, BuiltInBrackets(ded_call.region), 1)
           key == IncomeTaxKey(ded_call.region)
       IN  /\ ded_call.tax_call.called
           /\ ded_call.tax_call.annual_income = annual
           /\ ded_call.tax_call.tax_brackets = BuiltInBrackets(ded_call.region)
           /\ ded_call.tax_call.total_tax = owed
           /\ IF owed > 0
              THEN /\ key \in DOMAIN ded_call.deductions
                   /\ ded_call.deductions[key] = RoundHalfUpNat(owed, 100 * 12)
              ELSE key \notin DOMAIN ded_call.deductions

\* US, gross pay 10000.00: annual 120000.00 owes 22821.00, 1901.75 a month
\* (the table applied to 10000.00 itself would give 1001.00)
C6_Witness ==
    /\ ded_call.called
    /\ ded_call.region = "US"
    /\ ded_call.gross_pay = 1000000
    /\ ded_call.tax_call.annual_income = 12000000
    /\ "federal_income_tax" \in DOMAIN ded_call.deductions
    /\ ded_call.deductions["federal_income_tax"] = 190175

\* C7: a capped contribution is min(base * rate, cap) and never exceeds the
\* cap: the IN provident-fund deduction is min(gross * 0.12, 1800.00) and the
\* US social-security deduction is min(gross * 0.062, 827.70), 827.70 being
\* 6.2% of 160200 divided by 12 (both rounded to cents, left out when 0).
C7_CapEnforced ==
    ded_call.called
    => LET g == ded_call.gross_pay
           d == ded_call.deductions
       IN  /\ ded_call.region = "IN"
               => IF g > 0
                  THEN /\ "provident_fund" \in DOMAIN d
                       /\ d["provident_fund"] =
                              (IF g * 12 <= 180000 * 100
                               THEN RoundHalfUpNat(g * 12, 100) ELSE 180000)
                       /\ d["provident_fund"] <= 180000
                  ELSE "provident_fund" \notin DOMAIN d
           /\ ded_call.region = "US"
               => IF g > 0
                  THEN /\ "social_security" \in DOMAIN d
                       /\ d["social_security"] =
                              (IF g * 62 <= 82770 * 1000
                               THEN RoundHalfUpNat(g * 62, 1000) ELSE 82770)
                       /\ d["social_security"] <= 82770
                  ELSE "social_security" \notin DOMAIN d

\* IN, gross pay 20000.00: 12% is 2400.00, the cap binds at 1800.00
C7_Witness ==
    /\ ded_call.called
    /\ ded_call.region = "IN"
    /\ ded_call.gross_pay = 2000000
    /\ ded_call.deductions["provident_fund"] = 180000

\* US, gross pay 15000.01: above the wage base / 12, the cap binds at 827.70
C7_WitnessUS ==
    /\ ded_call.called
    /\ ded_call.region = "US"
    /\ ded_call.gross_pay = 1500001
    /\ ded_call.deductions["social_security"] = 82770

\* a table with the single bracket (0, r), r in [0,1]
SingleBracket(b) == Len(b) = 1 /\ b[1][1] = 0 /\ RatesInRange(b)

C9_TwoBracketScenario ==
    (prog_call.called
        /\ prog_call.tax_brackets = <<<<0, 10>>, <<100000, 20>>>>
        /\ prog_call.annual_income = 150000)
    => prog_call.total_tax = 20000 * 100

C9_Witness ==
    /\ prog_call.called
    /\ prog_call.tax_brackets = <<<<0, 10>>, <<100000, 20>>>>
    /\ prog_call.annual_income = 150000
    /\ prog_call.outcome = "returned"

\* C10: for every valid table, also one whose first rate is not zero, a base
\* amount of 0 owes 0.
C10_ZeroOwesZero ==
    (prog_call.called /\ ValidBrackets(prog_call.tax_brackets)
        /\ prog_call.annual_income = 0)
    => prog_call.total_tax = 0

\* a call with amount 0 on a valid table whose first rate is 0.20
C10_Witness ==
    /\ prog_call.called
    /\ prog_call.tax_brackets = <<<<0, 20>>, <<10000, 10>>>>
    /\ prog_call.annual_income = 0
    /\ prog_call.total_tax = 0

-----------------------------------------------------------------------------
-----------------------------------------------------------------------------
\* C12: the progressive income-tax deduction is rounded once, at the end:
\* the bracket walk hands back the exact, unrounded sum of slice * rate, and
\* the deduction is the round-half-up of that exact sum divided by 12 (the
\* exact quotient lies in [deduction - 0.005, deduction + 0.005)).
C12_RoundedOnce ==
    (ded_call.called /\ ded_call.region \in Regions)
    => LET exact == SliceSum(ded_call.gross_pay * 12,
                             BuiltInBrackets(ded_call.region), 1)
           key == IncomeTaxKey(ded_call.region)
       IN  /\ ded_call.tax_call.total_tax = exact
           /\ key \in DOMAIN ded_call.deductions
               => LET diff == exact - ded_call.deductions[key] * (100 * 12)
                  IN  -600 <= diff /\ diff < 600

\* US, gross pay 1000.15: the annual tax is 1241.2160 (not a whole number of
\* cents), a twelfth is 103.4346..., returned as 103.43; rounding the annual
\* tax to 1241.22 first would give 103.435 and then 103.44
C12_Witness ==
    /\ ded_call.called
    /\ ded_call.region = "US"
    /\ ded_call.gross_pay = 100015
    /\ ded_call.tax_call.total_tax = 12412160
    /\ ded_call.tax_call.total_tax % 100 # 0
    /\ ded_call.deductions["federal_income_tax"] = 10343

-----------------------------------------------------------------------------
\* C13: in every state the ERPNext instance can reach, each built-in
\* income-tax table (US federal, IN, UK) has first lower bound 0, strictly
\* increasing lower bounds and every rate in [0,1].
C13_BuiltInTablesValid ==
    \A region \in Regions :
        LET b == RegionBrackets(tax_configurations[region], region)
        IN  /\ b[1][1] = 0
            /\ \A i \in 1..(Len(b) - 1) : b[i][1] < b[i + 1][1]
            /\ \A i \in 1..Len(b) : 0 <= b[i][2] /\ b[i][2] <= 100

\* after initialize and a payroll run that read the US table, the table is
\* the four-bracket one of __init__
C13_Witness ==
    /\ service = "erpnext"
    /\ "initialize" \in lifecycle
    /\ result.op = "process_payroll"
    /\ result.outcome.success
    /\ result.input.region = "US"
    /\ Len(tax_configurations["US"].federal_income_tax.brackets) = 4
    /\ tax_configurations["US"].federal_income_tax.brackets[2] = <<995000, 12>>

-----------------------------------------------------------------------------
\* C14: whatever public methods of the ERPNext instance have been called
\* (initialize, process_payroll, optimize_bom, health_check,
\* get_capabilities, shutdown), with whatever outcome, tax_configurations is
\* the value __init__ gave it.
C14_ConfigurationUntouched ==
    tax_configurations = InitialTaxConfigurations

\* initialize and shutdown have been called and a payroll for a region
\* without a configuration of its own ("CA") has just succeeded
C14_Witness ==
    /\ service = "erpnext"
    /\ lifecycle = {"initialize", "shutdown"}
    /\ result.op = "process_payroll"
    /\ result.input.region = "CA"
    /\ result.outcome.success
    /\ DOMAIN tax_configurations = Regions

-----------------------------------------------------------------------------
\* C15: when process_payroll calls of several callers are interleaved on one
\* instance, each call that has returned has returned exactly what the same
\* request returns when it runs alone (employee results, totals, compliance
\* sums, employer liabilities, or the failure).
C15_InterleavingInvisible ==
    \A c \in Callers :
        payroll_calls[c].pc = "returned"
        => payroll_calls[c].result =
               process_payroll(InitialTaxConfigurations, payroll_calls[c].payroll_data)

\* both callers have returned successfully from two-employee payrolls of
\* different regions, and each ran while the other was under way
C15_Witness ==
    /\ \A c \in Callers :
           /\ payroll_calls[c].pc = "returned"
           /\ payroll_calls[c].interleaved
           /\ payroll_calls[c].result.success
           /\ Len(payroll_calls[c].result.employee_results) = 2
    /\ payroll_calls["a"].payroll_data.region = "US"
    /\ payroll_calls["b"].payroll_data.region = "UK"

-----------------------------------------------------------------------------
-----------------------------------------------------------------------------
\* what initialize leaves in self.agents of a FinRobot instance
AgentsAfter(calls_made) ==
    IF "initialize" \in calls_made THEN forecasting_models ELSE {}

\* C17 as stated: the services have no state machine; the outcome of
\* execute_forecast, health_check and process_payroll on a given input is
\* the outcome the same call has on a freshly constructed object, whatever
\* was called before (initialize in particular).
C17_NoStateMachine ==
    /\ (service = "finrobot" /\ result.op = "execute_forecast")
        => result.outcome =
               execute_forecast({}, result.input.data, result.input.forecast_type,
                                result.input.horizon_months)
    /\ (service = "erpnext" /\ result.op = "health_check")
        => result.outcome.status = health_check({}).status
    /\ (service = "erpnext" /\ result.op = "process_payroll")
        => result.outcome = process_payroll(InitialTaxConfigurations, result.input)

\* C17, amended: the outcome of a call depends on its input and on whether
\* initialize has been called before on the object, and on nothing else of
\* the history (shutdown included): execute_forecast and the two
\* health_check methods answer from what initialize registered;
\* process_payroll, optimize_bom and analyze_sentiment answer from the input
\* alone.
C17_OutcomeDependsOnInitializeOnly ==
    /\ (service = "finrobot" /\ result.op = "execute_forecast")
        => result.outcome =
               execute_forecast(AgentsAfter(lifecycle), result.input.data,
                                result.input.forecast_type,
                                result.input.horizon_months)
    /\ (service = "finrobot" /\ result.op = "health_check")
        => /\ result.outcome.status = "healthy"
           /\ result.outcome.agents_active = Cardinality(AgentsAfter(lifecycle))
    /\ (service = "erpnext" /\ result.op = "health_check")
        => result.outcome.status =
               (IF "initialize" \in lifecycle THEN "healthy" ELSE "partial")
    /\ (service = "erpnext" /\ result.op = "process_payroll")
        => result.outcome = process_payroll(InitialTaxConfigurations, result.input)
    /\ (service = "erpnext" /\ result.op = "optimize_bom")
        => result.outcome = optimize_bom(result.input)
    /\ (service = "fingpt" /\ result.op = "analyze_sentiment")
        => result.outcome = analyze_sentiment(result.input.text, result.input.context)
    /\ (service = "finrobot" /\ result.op = "execute_forecast"
           /\ result.input.data.is_dict
           /\ result.input.forecast_type \in forecasting_models
           /\ "initialize" \notin lifecycle)
        => /\ ~result.outcome.success
           /\ result.outcome.error.message =
                  UnknownForecastType(result.input.forecast_type)

\* initialize and then shutdown have been called on a FinRobot object and a
\* revenue forecast, which fails on a fresh object, has succeeded
C17_Witness ==
    /\ service = "finrobot"
    /\ lifecycle = {"initialize", "shutdown"}
    /\ result.op = "execute_forecast"
    /\ result.input.forecast_type = "revenue"
    /\ result.input.horizon_months = 12
    /\ result.outcome.success
    /\ ~execute_forecast({}, result.input.data, "revenue", 12).success

-----------------------------------------------------------------------------
\* the four methods whose whole body is inside try/except Exception
GuardedMethods ==
    {"process_payroll", "optimize_bom", "analyze_sentiment", "execute_forecast"}

\* C18: process_payroll, optimize_bom, analyze_sentiment and
\* execute_forecast never raise to the caller: the call returns a dict with
\* success True and no error, or with success False and the error of the
\* validation failure or of the exception that occurred inside.
C18_NeverRaises ==
    result.op \in GuardedMethods
    => /\ ~result.outcome.raised
       /\ result.outcome.success \in BOOLEAN
       /\ result.outcome.success => "error" \notin DOMAIN result.outcome
       /\ ~result.outcome.success
           => /\ "error" \in DOMAIN result.outcome
              /\ result.outcome.error.kind \in
                     {"ValueError", "AttributeError", "TypeError", "ZeroDivisionError"}

\* process_payroll(None): the AttributeError raised inside comes back as a
\* dict with success False
C18_Witness ==
    /\ result.op = "process_payroll"
    /\ result.input = NotADict
    /\ ~result.outcome.raised
    /\ ~result.outcome.success
    /\ result.outcome.error.kind = "AttributeError"

-----------------------------------------------------------------------------
\* the conditions of the claim, read off the request
RequestInvalid(payroll_data) ==
    \/ payroll_data.employees = <<>>
    \/ ~payroll_data.period_start
    \/ ~payroll_data.period_end
    \/ \E i \in 1..Len(payroll_data.employees) :
           \/ payroll_data.employees[i].employee_id = ""
           \/ payroll_data.employees[i].base_salary <= 0

\* C19: a process_payroll call on a request with no employees, a missing
\* period date, or an employee without employee_id or with base_salary
\* missing or <= 0 returns success False with no employee results and no
\* totals; it returns success True only on a request with none of these; and
\* at no point of a call has an employee been processed unless the whole
\* request is valid.
C19_ValidatedBeforeProcessing ==
    \A c \in Callers :
        LET call == payroll_calls[c]
        IN  (call.pc # "idle" /\ call.payroll_data.is_dict)
            => /\ call.pc = "validate" => call.payroll_results = <<>>
               /\ call.payroll_results # <<>> => ~RequestInvalid(call.payroll_data)
               /\ (call.pc = "returned" /\ RequestInvalid(call.payroll_data))
                   => /\ ~call.result.success
                      /\ call.payroll_results = <<>>
                      /\ "employee_results" \notin DOMAIN call.result
                      /\ "summary" \notin DOMAIN call.result
               /\ (call.pc = "returned" /\ call.result.success)
                   => ~RequestInvalid(call.payroll_data)

\* a request whose first employee is valid and whose second has no base
\* salary has returned the failure, with nothing processed
C19_Witness ==
    \E c \in Callers :
        /\ payroll_calls[c].pc = "returned"
        /\ Len(payroll_calls[c].payroll_data.employees) = 2
        /\ payroll_calls[c].payroll_data.employees[1] = EmployeePlain
        /\ payroll_calls[c].payroll_data.employees[2].base_salary = 0
        /\ ~payroll_calls[c].result.success
        /\ payroll_calls[c].result.error.errors =
               <<ValidationError(2, "Valid base salary is required")>>
        /\ payroll_calls[c].payroll_results = <<>>

-----------------------------------------------------------------------------
\* C20: once initialize has completed on a FinRobot object, execute_forecast
\* (on a data dict with a growth rate of at least -100%) returns success True
\* for each of revenue, expenses, growth, risk, strategic and comprehensive,
\* and success False with the error 'Unknown forecast type: <type>' for any
\* other type.
C20_AdvertisedTypesSucceed ==
    (/\ service = "finrobot"
     /\ "initialize" \in lifecycle
     /\ result.op = "execute_forecast"
     /\ result.input.data.is_dict
     /\ result.input.data.growth_rate >= -100)
    => IF result.input.forecast_type \in finrobot_get_capabilities.forecast_types
       THEN result.outcome.success
       ELSE /\ ~result.outcome.success
            /\ result.outcome.error.message =
                   UnknownForecastType(result.input.forecast_type)

-----------------------------------------------------------------------------
\* C21: execute_forecast honours the horizon limits of get_capabilities: a
\* call that returns success True has min_horizon_months <= horizon_months
\* <= max_horizon_months (1 and 60); a horizon outside the range returns
\* success False.
C21_HorizonLimitsHonoured ==
    (service = "finrobot" /\ result.op = "execute_forecast"
        /\ result.outcome.success)
    => /\ result.input.horizon_months >= finrobot_get_capabilities.min_horizon_months
       /\ result.input.horizon_months <= finrobot_get_capabilities.max_horizon_months

-----------------------------------------------------------------------------
\* the tenant id a returned dict carries ('tenantId' in ERPNext, 'tenant_id'
\* in FinRobot and FinGPT)
TenantLabelOf(outcome) ==
    IF "tenantId" \in DOMAIN outcome THEN outcome.tenantId
    ELSE IF "tenant_id" \in DOMAIN outcome THEN outcome.tenant_id
    ELSE "(no label)"

-----------------------------------------------------------------------------
\* the sum of one field over the employee results
RECURSIVE SumField(_, _)
SumField(employee_results, field) ==
    IF employee_results = <<>> THEN 0
    ELSE Head(employee_results)[field] + SumField(Tail(employee_results), field)

\* C23: in every successful payroll result each employee's net_pay is
\* gross_pay minus total_deductions, gross_pay and total_deductions are the
\* sums of the listed earnings and deductions, and the summary totals are
\* the sums of the per-employee values, so that the summary's total_net_pay
\* is total_gross_pay minus total_deductions.
C23_PayrollSumsConsistent ==
    (service = "erpnext" /\ result.op = "process_payroll" /\ result.outcome.success)
    => LET employee_results == result.outcome.employee_results
           summary == result.outcome.summary
       IN  /\ \A i \in DOMAIN employee_results :
                  /\ employee_results[i].net_pay =
                         employee_results[i].gross_pay
                         - employee_results[i].total_deductions
                  /\ employee_results[i].gross_pay =
                         SumValues(employee_results[i].earnings)
                  /\ employee_results[i].total_deductions =
                         SumValues(employee_results[i].deductions)
           /\ summary.total_gross_pay = SumField(employee_results, "gross_pay")
           /\ summary.total_deductions = SumField(employee_results, "total_deductions")
           /\ summary.total_net_pay = SumField(employee_results, "net_pay")
           /\ summary.total_net_pay = summary.total_gross_pay - summary.total_deductions

\* a payroll of the plain employee and the manager (whose gross pay has
\* overtime, a bonus and allowances on top of the basic salary) in the UK
C23_Witness ==
    /\ service = "erpnext"
    /\ result.op = "process_payroll"
    /\ result.outcome.success
    /\ result.input.employees = <<EmployeePlain, EmployeeManager>>
    /\ result.input.region = "UK"
    /\ result.outcome.employee_results[2].gross_pay
           > result.outcome.employee_results[2].earnings.basic_salary
    /\ result.outcome.summary.total_employees = 2
    /\ result.outcome.summary.total_net_pay
           = result.outcome.employee_results[1].net_pay
             + result.outcome.employee_results[2].net_pay

-----------------------------------------------------------------------------
\* the lists that hold the same employee results in any order
Reorderings(seq) ==
    {[i \in DOMAIN seq |-> seq[f[i]]] :
        f \in {g \in [DOMAIN seq -> DOMAIN seq] :
                  \A i, j \in DOMAIN seq : g[i] = g[j] => i = j}}

\* C24: the employer liabilities (employer_taxes and total_employer_cost)
\* do not depend on the order of the employees: for every region, every
\* permutation of the same employee results yields the same two amounts.
C24_LiabilitiesOrderIndependent ==
    result.op = "_calculate_employer_liabilities"
    => \A permuted \in Reorderings(result.input.payroll_results) :
           LET other == _calculate_employer_liabilities(
                            permuted,
                            PayrollRequest(<<>>, TRUE, TRUE, result.input.region))
           IN  /\ other.employer_taxes = result.outcome.employer_taxes
               /\ other.total_employer_cost = result.outcome.total_employer_cost

-----------------------------------------------------------------------------
\* the deductions the US branch of _calculate_deductions assigns
StatutoryKeys == {"federal_income_tax", "social_security", "medicare", "state_income_tax"}

\* C25: for a region that has no tax configuration the US configuration is
\* applied: the statutory deductions (income tax, social security, medicare,
\* state tax) are those of region US on the same gross pay.
C25_UnconfiguredRegionTaxedAsUS ==
    (ded_call.called /\ ded_call.region \notin DOMAIN tax_configurations)
    => LET us == _calculate_deductions(tax_configurations, ded_call.employee,
                                       ded_call.gross_pay, "US")
       IN  \A k \in StatutoryKeys \cap DOMAIN us :
               /\ k \in DOMAIN ded_call.deductions
               /\ ded_call.deductions[k] = us[k]

-----------------------------------------------------------------------------
\* a result of analyze_batch without its index
WithoutIndex(entry) == [k \in DOMAIN entry \ {"index"} |-> entry[k]]

\* C26: analyze_batch returns exactly one result per text, in input order,
\* the result at position i carrying index i (from 0), whatever order the
\* analyses complete in; a text that fails has a success False entry at its
\* own position and every entry is what analyze_sentiment returns for its
\* text alone.
C26_BatchInInputOrder ==
    batch.pc = "returned"
    => /\ Len(batch.processed_results) = Len(batch.texts)
       /\ \A i \in DOMAIN batch.texts :
              /\ batch.processed_results[i].index = i - 1
              /\ WithoutIndex(batch.processed_results[i])
                     = LabelledFinGPT([tenant_id |-> "t1"],
                           analyze_sentiment(batch.texts[i], batch.context))

\* a batch of three whose second text is empty, the third analysis having
\* completed first
C26_Witness ==
    /\ batch.pc = "returned"
    /\ Len(batch.texts) = 3
    /\ batch.texts[2] = [kind |-> "str", tokens |-> <<>>]
    /\ batch.completed = <<3, 1, 2>>
    /\ batch.processed_results[1].success
    /\ batch.processed_results[1].sentiment = "positive"
    /\ ~batch.processed_results[2].success
    /\ batch.processed_results[2].index = 1
    /\ batch.processed_results[3].success
    /\ batch.processed_results[3].sentiment = "negative"

-----------------------------------------------------------------------------
\* C27: ERPNext health_check reports 'partial' with all five modules
\* 'not_initialized' whenever initialize has not run, and 'healthy' with all
\* five modules 'healthy' whenever initialize has completed; what initialize
\* has set up is never taken away, so after a 'healthy' report no 'partial'
\* report follows, shutdown included.
C27_HealthFollowsInitialize ==
    [][/\ (service = "erpnext" /\ result'.op = "health_check")
           => IF "initialize" \in lifecycle'
              THEN /\ result'.outcome.status = "healthy"
                   /\ \A m \in ModuleNames : result'.outcome.modules[m] = "healthy"
              ELSE /\ result'.outcome.status = "partial"
                   /\ \A m \in ModuleNames :
                          result'.outcome.modules[m] = "not_initialized"
       /\ "initialize" \in lifecycle => "initialize" \in lifecycle'
       /\ ModuleNames \subseteq modules => ModuleNames \subseteq modules']_vars

\* health_check reports 'healthy' after initialize and shutdown
C27_Witness ==
    /\ service = "erpnext"
    /\ lifecycle = {"initialize", "shutdown"}
    /\ result.op = "health_check"
    /\ result.outcome.status = "healthy"
    /\ \A m \in ModuleNames : result.outcome.modules[m] = "healthy"

-----------------------------------------------------------------------------
\* a <= b on two exact fractions with positive denominators
FracLeq(a, b) == a.num * b.den <= b.num * a.den

\* C28: for any text and any context the score analyze_sentiment returns
\* lies in [-1, 1] and the confidence lies in [0.5, 0.95].
C28_ScoreAndConfidenceInRange ==
    (service = "fingpt" /\ result.op = "analyze_sentiment" /\ result.outcome.success)
    => /\ FracLeq(Frac(-1, 1), result.outcome.score)
       /\ FracLeq(result.outcome.score, Frac(1, 1))
       /\ FracLeq(Frac(50, 100), result.outcome.confidence)
       /\ FracLeq(result.outcome.confidence, Frac(95, 100))

\* a text of keywords and four entities in a bull market for tech: the net
\* score 1.21 is returned as 1 and the confidence 1.0 as 0.95
C28_Witness ==
    /\ service = "fingpt"
    /\ result.op = "analyze_sentiment"
    /\ result.outcome.success
    /\ result.input.text.tokens = TextWithEntities
    /\ result.input.context = Context({"sector", "market_condition"}, "tech", "bull")
    /\ NetScore(result.outcome.sentiment_distribution) = Frac(121 * 5, 100 * 5)
    /\ result.outcome.score = Frac(1, 1)
    /\ result.outcome.entities = 4
    /\ result.outcome.confidence = Frac(95, 100)

\* C29: the sentiment_distribution analyze_sentiment returns is normalized:
\* when the text contains a vocabulary keyword the positive, negative and
\* neutral values each lie in [0, 1] and sum to 1, and all three are 0 when
\* it contains none, with or without a context.
C29_DistributionNormalized ==
    (service = "fingpt" /\ result.op = "analyze_sentiment" /\ result.outcome.success)
    => LET d == result.outcome.sentiment_distribution
           keywords == {i \in DOMAIN WordsOf(result.input.text.tokens) :
                           WordsOf(result.input.text.tokens)[i]
                               \in financial_keywords.positive
                                   \cup financial_keywords.negative
                                   \cup financial_keywords.neutral}
       IN  IF keywords # {}
           THEN /\ \A k \in DOMAIN d : FracLeq(Frac(0, 1), d[k]) /\ FracLeq(d[k], Frac(1, 1))
                /\ d.positive.num + d.negative.num + d.neutral.num = d.positive.den
           ELSE \A k \in DOMAIN d : d[k].num = 0

\* the net score of a call, from the distribution it returns
ReturnedNetScore ==
    LET d == result.outcome.sentiment_distribution
    IN  Frac(d.positive.num * d.negative.den - d.negative.num * d.positive.den,
             d.positive.den * d.negative.den)

\* C30: the label is 'positive' exactly when the net score (positive minus
\* negative) is greater than 0.1, 'negative' exactly when it is less than
\* -0.1 and 'neutral' otherwise; a non-empty text without a vocabulary
\* keyword is 'neutral' with score 0.
C30_LabelFollowsNetScore ==
    (service = "fingpt" /\ result.op = "analyze_sentiment" /\ result.outcome.success)
    => /\ result.outcome.sentiment = "positive"
              <=> ~FracLeq(ReturnedNetScore, Frac(1, 10))
       /\ result.outcome.sentiment = "negative"
              <=> ~FracLeq(Frac(-1, 10), ReturnedNetScore)
       /\ result.outcome.sentiment \in {"positive", "negative", "neutral"}
       /\ (\A i \in DOMAIN WordsOf(result.input.text.tokens) :
               WordWeight(WordsOf(result.input.text.tokens)[i])
                   = [positive |-> 0, negative |-> 0, neutral |-> 0])
              => /\ result.outcome.sentiment = "neutral"
                 /\ result.outcome.score.num = 0

\* ten words whose net score is exactly 0.1: the label is 'neutral'
C30_Witness ==
    /\ service = "fingpt"
    /\ result.op = "analyze_sentiment"
    /\ result.outcome.success
    /\ result.input.text.tokens = TextAtThreshold
    /\ result.input.context = NoContext
    /\ ReturnedNetScore.num * 10 = ReturnedNetScore.den
    /\ result.outcome.sentiment = "neutral"

=============================================================================
